---- MODULE Spec2Model ----
(***************************************************************************)
(* Identity and session core of the Content Manager MCP server:            *)
(*   auth/session_store.py      SessionStore (sessions, user index,        *)
(*                              conversations, caches)                     *)
(*   tools/session_validator.py validate_session_for_tool                  *)
(*   tools/session_tools.py     createSessionFromToken, clearSession       *)
(*   agent/agent.py             Agent.handle_query                         *)
(*   tools/authentication.py    authenticate_user_impl, _store_tokens      *)
(*   tools/compare_token.py     compare_token_impl                         *)
(* Time is counted in minutes.  uuid4 values are drawn from counters.      *)
(***************************************************************************)
EXTENDS Integers, Sequences, FiniteSets, TLC

\* ------------------------------------------------------------------ bounds
MaxSessions == 3
MaxTime == 2
MaxMessages == 3
MaxQueries == 3
MaxLimit == 3
MaxLen == 2

\* ------------------------------------------------------- program constants
\* The timeouts and the conversation limit are read from the environment
\* (defaults 1, 5 and 100); the idle timeout and the limit are kept small.
SESSION_TIMEOUT_MINUTES == 1
IDLE_TIMEOUT_MINUTES == 1
MAX_CONVERSATION_MESSAGES == 2
CACHE_LAST_MESSAGES == 10

Users == {"alice", "bob"}
Tasks == {"t1", "t2"}
SessionIds == 1..MaxSessions
Statuses == {"active", "idle", "expired"}
None == "None"
NoSid == 0
\* Texts are sequences of words; the empty one stands for a bearer_token or
\* a metadata that was not given.
NoToken == <<>>
\* The None that a lookup of a session returns.
NoSession ==
    [session_id |-> NoSid, user_id |-> None, created_at |-> 0,
     last_activity |-> 0, expires_at |-> 0, status |-> None,
     bearer_token |-> NoToken, metadata |-> <<>>]

VARIABLES
    sessions,        \* SessionStore._sessions: session_id -> session data
    user_sessions,   \* SessionStore._user_sessions: user_id -> session_id
    conversations,   \* SessionStore._conversations: session_id -> messages
    caches,          \* SessionStore._caches: session_id -> cache data
    now,             \* datetime.utcnow()
    next_sid,        \* the next uuid4 of create_session
    next_mid,        \* the next uuid4 of add_message
    task_pc,         \* where each in-flight create_session coroutine stands
    task_user,       \* its user_id argument
    task_existing,   \* its local existing_session_id
    server_token,    \* contents of server_token.txt
    client_token,    \* contents of the file at CLIENT_TOKEN_PATH
    client_token_path,   \* whether CLIENT_TOKEN_PATH is configured
    session_files,   \* the session_, conversation_ and cache_ files of the
                     \* storage directory (followed in the restart
                     \* specification)
    chat_user,       \* per chat, the user who authenticated in it
    last_result,     \* the dict the last tool call returned
    authenticated_email, \* Agent._authenticated_email
    user_validated,  \* Agent._user_validated
    agent_pc,        \* the step of handle_query the agent stands at
    queries,         \* how many queries the agent was given
    calls,           \* the MCP tools called for the current query
    intent,          \* handle_query's local intent
    response,        \* what handle_query returned last
    jwks_cache,      \* _jwks_cache: the key ids of the cached key set
    jwks_cache_time, \* _jwks_cache_time
    idp_keys         \* the key ids the identity provider serves

store_vars == <<sessions, user_sessions, conversations, caches>>

task_vars == <<task_pc, task_user, task_existing>>

\* What the store's operations, called one at a time, leave alone.
token_files == <<server_token, client_token, client_token_path>>

file_vars == <<token_files, session_files>>

chat_vars == <<chat_user, last_result>>

agent_vars == <<authenticated_email, user_validated, agent_pc, queries,
                calls, intent, response>>

jwks_vars == <<jwks_cache, jwks_cache_time, idp_keys>>

outside_store == <<task_vars, file_vars, chat_vars, agent_vars, jwks_vars>>

\* ------------------------------------------------------------ dict helpers
\* dict.get(k) on a dictionary of session ids, and on the session table.
GetSid(d, k) == IF k \in DOMAIN d THEN d[k] ELSE NoSid

GetSession(d, k) == IF k \in DOMAIN d THEN d[k] ELSE NoSession

Del(d, k) == [x \in DOMAIN d \ {k} |-> d[x]]

Put(d, k, v) == (k :> v) @@ d

LastN(s, n) ==
    IF n = 0 \/ Len(s) <= n THEN s ELSE SubSeq(s, Len(s) - n + 1, Len(s))

\* The store's dictionaries and files as one value.
Store ==
    [sessions |-> sessions, user_sessions |-> user_sessions,
     conversations |-> conversations, caches |-> caches]

\* ------------------------------------------------------ store operations
get_session(st, sid) == GetSession(st.sessions, sid)

get_session_by_user_id(st, uid) ==
    LET sid == GetSid(st.user_sessions, uid)
    IN  IF sid # NoSid THEN GetSession(st.sessions, sid) ELSE NoSession

\* Leaves the conversation of the invalidated session behind.
invalidate_session_keeps_conversation(st, sid) ==
    IF sid \in DOMAIN st.sessions
    THEN LET user_id == st.sessions[sid].user_id
         IN  [st EXCEPT
                 !.sessions = Del(@, sid),
                 !.user_sessions =
                     IF GetSid(@, user_id) = sid THEN Del(@, user_id) ELSE @,
                 !.caches = Del(@, sid)]
    ELSE st

invalidate_session(st, sid) ==
    IF sid \in DOMAIN st.sessions
    THEN LET user_id == st.sessions[sid].user_id
         IN  [st EXCEPT
                 !.sessions = Del(@, sid),
                 !.user_sessions =
                     IF GetSid(@, user_id) = sid THEN Del(@, user_id) ELSE @,
                 !.conversations = Del(@, sid),
                 !.caches = Del(@, sid)]
    ELSE st

invalidate_session_result(st, sid) == sid \in DOMAIN st.sessions

\* A session that expires the instant it is created.
NewSession_without_lifetime(sid, user_id, t) ==
    [session_id |-> sid, user_id |-> user_id,
     created_at |-> t, last_activity |-> t,
     expires_at |-> t, status |-> "active",
     bearer_token |-> NoToken, metadata |-> <<>>]

NewSession(sid, user_id, t) ==
    [session_id |-> sid, user_id |-> user_id,
     created_at |-> t, last_activity |-> t,
     expires_at |-> t + SESSION_TIMEOUT_MINUTES, status |-> "active",
     bearer_token |-> NoToken, metadata |-> <<>>]

\* A summary is a text; preferences and state are dictionaries.
NoSummary == <<>>

NoDict == <<>>

NewCache(sid) ==
    [session_id |-> sid, last_messages |-> <<>>,
     conversation_summary |-> NoSummary, user_preferences |-> NoDict,
     state |-> NoDict]

\* The part of create_session after the existing session id was read:
\* invalidate it if there was one, then build and store the new session.
create_session_from(st, existing_session_id, user_id, sid, t) ==
    LET st1 == IF existing_session_id # NoSid
               THEN invalidate_session(st, existing_session_id)
               ELSE st
    IN  [st1 EXCEPT
            !.sessions = Put(@, sid, NewSession(sid, user_id, t)),
            !.user_sessions = Put(@, user_id, sid),
            !.conversations = Put(@, sid, <<>>),
            !.caches = Put(@, sid, NewCache(sid))]

\* Skips the invalidation of the user's existing session.
create_session_no_invalidate(st, user_id, sid, t) ==
    create_session_from(st, NoSid, user_id, sid, t)

create_session(st, user_id, sid, t) ==
    create_session_from(st, GetSid(st.user_sessions, user_id), user_id, sid, t)

\* create_session called with its bearer_token and metadata arguments.
create_session_with_token(st, user_id, bearer_token, metadata, sid, t) ==
    [create_session(st, user_id, sid, t) EXCEPT
        !.sessions[sid].bearer_token = bearer_token,
        !.sessions[sid].metadata = metadata]

\* Returns the session as it is stored.
get_session_info_whole_session(st, sid) ==
    [found |-> sid \in DOMAIN st.sessions,
     session |-> GetSession(st.sessions, sid),
     conversation_count |->
         IF sid \in DOMAIN st.conversations
         THEN Len(st.conversations[sid]) ELSE 0]

\* get_session_info: None for a session that is not in the table, else the
\* session without its bearer_token and the length of its conversation.
get_session_info(st, sid) ==
    [found |-> sid \in DOMAIN st.sessions,
     session |-> [k \in DOMAIN GetSession(st.sessions, sid) \ {"bearer_token"}
                      |-> GetSession(st.sessions, sid)[k]],
     conversation_count |->
         IF sid \in DOMAIN st.conversations
         THEN Len(st.conversations[sid]) ELSE 0]

\* Activity makes the session active again.
update_last_activity_reactivates(st, sid, t) ==
    IF sid \in DOMAIN st.sessions
    THEN [st EXCEPT !.sessions[sid].last_activity = t,
                    !.sessions[sid].status = "active"]
    ELSE st

\* Activity also pushes the expiry out.
update_last_activity_extends_expiry(st, sid, t) ==
    IF sid \in DOMAIN st.sessions
    THEN [st EXCEPT !.sessions[sid].last_activity = t,
                    !.sessions[sid].expires_at = t + SESSION_TIMEOUT_MINUTES]
    ELSE st

update_last_activity(st, sid, t) ==
    IF sid \in DOMAIN st.sessions
    THEN [st EXCEPT !.sessions[sid].last_activity = t]
    ELSE st

\* What update_last_activity returns.
update_last_activity_result(st, sid) == sid \in DOMAIN st.sessions

update_session_status(st, sid, status) ==
    IF sid \in DOMAIN st.sessions
    THEN [st EXCEPT !.sessions[sid].status = status]
    ELSE st

\* Trims from the wrong end: keeps the oldest messages.
add_message_keeps_oldest(st, sid, mid, t) ==
    IF sid \notin DOMAIN st.conversations
    THEN st
    ELSE LET appended == Append(st.conversations[sid], mid)
             conv == IF Len(appended) > MAX_CONVERSATION_MESSAGES
                     THEN SubSeq(appended, 1, MAX_CONVERSATION_MESSAGES)
                     ELSE appended
             cache == IF sid \in DOMAIN st.caches THEN st.caches[sid] ELSE <<>>
             st1 == [st EXCEPT
                        !.conversations[sid] = conv,
                        !.caches = Put(@, sid,
                            Put(cache, "last_messages",
                                LastN(conv, CACHE_LAST_MESSAGES)))]
         IN  update_last_activity(st1, sid, t)

add_message(st, sid, mid, t) ==
    IF sid \notin DOMAIN st.conversations
    THEN st
    ELSE LET appended == Append(st.conversations[sid], mid)
             conv == IF Len(appended) > MAX_CONVERSATION_MESSAGES
                     THEN LastN(appended, MAX_CONVERSATION_MESSAGES)
                     ELSE appended
             cache == IF sid \in DOMAIN st.caches THEN st.caches[sid] ELSE <<>>
             st1 == [st EXCEPT
                        !.conversations[sid] = conv,
                        !.caches = Put(@, sid,
                            Put(cache, "last_messages",
                                LastN(conv, CACHE_LAST_MESSAGES)))]
         IN  update_last_activity(st1, sid, t)

\* dict.update(data): the keys of data win.
Update(d, data) == data @@ d

update_cache(st, sid, data) ==
    IF sid \notin DOMAIN st.caches
    THEN st
    ELSE [st EXCEPT !.caches[sid] = Update(@, data)]

update_cache_result(st, sid) == sid \in DOMAIN st.caches

\* Merges the new state into the old one.
update_state_merges(st, sid, state) ==
    IF sid \notin DOMAIN st.caches
    THEN st
    ELSE [st EXCEPT !.caches[sid] = Put(@, "state", Update(@["state"], state))]

update_state(st, sid, state) ==
    IF sid \notin DOMAIN st.caches
    THEN st
    ELSE [st EXCEPT !.caches[sid] = Put(@, "state", state)]

update_state_result(st, sid) == sid \in DOMAIN st.caches

\* get_state: None (found is FALSE) when the session has no cache or an empty
\* one, else the cache's state, {} when the cache has no such key.
get_state(st, sid) ==
    IF sid \in DOMAIN st.caches /\ DOMAIN st.caches[sid] # {}
    THEN [found |-> TRUE,
          state |-> IF "state" \in DOMAIN st.caches[sid]
                    THEN st.caches[sid]["state"] ELSE NoDict]
    ELSE [found |-> FALSE, state |-> NoDict]

update_user_preferences(st, sid, preferences) ==
    IF sid \notin DOMAIN st.caches
    THEN st
    ELSE LET cache == st.caches[sid]
             current_prefs == IF "user_preferences" \in DOMAIN cache
                              THEN cache["user_preferences"] ELSE NoDict
         IN  [st EXCEPT !.caches[sid] =
                 Put(@, "user_preferences", Update(current_prefs, preferences))]

update_user_preferences_result(st, sid) == sid \in DOMAIN st.caches

\* Drops the conversation instead of emptying it.
clear_conversation_deletes(st, sid) ==
    IF sid \notin DOMAIN st.conversations
    THEN st
    ELSE [st EXCEPT !.conversations = Del(@, sid)]

\* Starts the cache afresh.
clear_conversation_resets_cache(st, sid) ==
    IF sid \notin DOMAIN st.conversations
    THEN st
    ELSE [st EXCEPT !.conversations[sid] = <<>>,
                    !.caches = Put(@, sid, NewCache(sid))]

clear_conversation(st, sid) ==
    IF sid \notin DOMAIN st.conversations
    THEN st
    ELSE LET st1 == [st EXCEPT !.conversations[sid] = <<>>]
         IN  IF sid \in DOMAIN st1.caches
             THEN [st1 EXCEPT !.caches[sid] =
                      Put(Put(@, "last_messages", <<>>),
                          "conversation_summary", NoSummary)]
             ELSE st1

clear_conversation_result(st, sid) == sid \in DOMAIN st.conversations

\* A slice index as list slicing reads it: a negative one counts from the
\* end, and both ends are clipped to the list.
PyIndex(i, n) ==
    IF i < 0 THEN (IF i + n < 0 THEN 0 ELSE i + n)
    ELSE (IF i > n THEN n ELSE i)

\* s[start:stop]
PySlice(s, start, stop) ==
    LET a == PyIndex(start, Len(s))
        b == PyIndex(stop, Len(s))
    IN  IF a >= b THEN <<>> ELSE SubSeq(s, a + 1, b)

\* limit = None
NoLimit == -1

\* `if limit:` is entered for a limit that is neither None nor 0.
get_conversation(st, sid, limit, offset) ==
    LET conversation == IF sid \in DOMAIN st.conversations
                        THEN st.conversations[sid] ELSE <<>>
    IN  IF limit # NoLimit /\ limit # 0
        THEN IF offset # 0
             THEN IF offset < Len(conversation)
                  THEN PySlice(conversation, -(limit + offset), -offset)
                  ELSE <<>>
             ELSE PySlice(conversation, -limit, Len(conversation))
        ELSE conversation

\* The sessions check_idle_sessions marks: active, last activity before the
\* idle threshold.
\* Sessions of any status whose last activity is old.
IdleDue_any_status(st, t) ==
    {sid \in DOMAIN st.sessions :
        st.sessions[sid].last_activity < t - IDLE_TIMEOUT_MINUTES}

IdleDue(st, t) ==
    {sid \in DOMAIN st.sessions :
        /\ st.sessions[sid].status = "active"
        /\ st.sessions[sid].last_activity < t - IDLE_TIMEOUT_MINUTES}

check_idle_sessions(st, t) ==
    LET due == IdleDue(st, t)
    IN  [st EXCEPT !.sessions =
            [sid \in DOMAIN st.sessions |->
                IF sid \in due
                THEN [st.sessions[sid] EXCEPT !.status = "idle"]
                ELSE st.sessions[sid]]]

\* The sessions cleanup_expired_sessions removes: expires_at in the past.
\* What check_idle_sessions returns: the ids it marked.
check_idle_sessions_result(st, t) == IdleDue(st, t)

\* Only the active sessions past their expiry.
ExpiredDue_active_only(st, t) ==
    {sid \in DOMAIN st.sessions :
        /\ st.sessions[sid].status = "active"
        /\ st.sessions[sid].expires_at < t}

ExpiredDue(st, t) ==
    {sid \in DOMAIN st.sessions : st.sessions[sid].expires_at < t}

RECURSIVE InvalidateAll(_, _)
InvalidateAll(st, sids) ==
    IF sids = {} THEN st
    ELSE LET sid == CHOOSE x \in sids : TRUE
         IN  InvalidateAll(invalidate_session(st, sid), sids \ {sid})

cleanup_expired_sessions(st, t) == InvalidateAll(st, ExpiredDue(st, t))

\* What cleanup_expired_sessions returns: the ids it removed.
cleanup_expired_sessions_result(st, t) == ExpiredDue(st, t)


\* ------------------------------------------------------------ bearer tokens
Tokens == {"tok_alice", "tok_bob", "tok_nosub", "tok_bad"}

\* validate_jwt: the claims of a token the identity provider signed, or the
\* AuthMiddlewareError raised for any other.
validate_jwt(token) ==
    CASE token = "tok_alice" -> [ok |-> TRUE, sub |-> "alice", email |-> "alice"]
      [] token = "tok_bob" -> [ok |-> TRUE, sub |-> "bob", email |-> "bob"]
      [] token = "tok_nosub" -> [ok |-> TRUE, sub |-> None, email |-> None]
      [] OTHER -> [ok |-> FALSE, sub |-> None, email |-> None]

\* ------------------------------------------------------------- encryption
\* What TOKEN_ENCRYPTION_SECRET can be set to.
Secrets == {"secret1", "secret2"}

\* The secret the server runs with.
TOKEN_ENCRYPTION_SECRET == "secret1"

\* The initialization vectors Fernet draws.
IVs == {"iv1", "iv2"}

\* A bearer token as a text.
TokenText(token) == <<token>>

\* Decrypts with a key made from another secret.
decrypt_token_other_key(secret, encrypted_token) ==
    IF /\ Len(encrypted_token) >= 3
       /\ encrypted_token[1] = "fernet"
       /\ encrypted_token[2] # secret
    THEN SubSeq(encrypted_token, 4, Len(encrypted_token))
    ELSE encrypted_token

\* encrypt_token: the Fernet token of the text under the key made from the
\* secret, or the text itself when the encryption raised.
encrypt_token(secret, token, iv, raised) ==
    IF raised THEN token ELSE <<"fernet", secret, iv>> \o token

\* decrypt_token: the text a Fernet token of this key holds, or the argument
\* itself when it is no such token.
decrypt_token(secret, encrypted_token) ==
    IF /\ Len(encrypted_token) >= 3
       /\ encrypted_token[1] = "fernet"
       /\ encrypted_token[2] = secret
    THEN SubSeq(encrypted_token, 4, Len(encrypted_token))
    ELSE encrypted_token

\* ---------------------------------------------------------------- key set
Kids == {"kid1", "kid2"}

\* _jwks_cache_time = None
NoTime == -1

\* The cache duration, in the model's time unit (3600 seconds in the source).
JWKS_CACHE_DURATION == 2

\* How the GET of the key set can end: the served key set, a
\* requests.RequestException, or a body that response.json() cannot read.
Responses == {"up", "down", "garbled"}

NoError == [kind |-> "none", message |-> None, status_code |-> 0]

AuthMiddlewareError(message, status_code) ==
    [kind |-> "AuthMiddlewareError", message |-> message,
     status_code |-> status_code]

\* Any exception that is not an AuthMiddlewareError.
OtherException ==
    [kind |-> "Exception", message |-> "exception", status_code |-> 500]

fetch_jwks_trusts_cache(cache, cache_time, served, t, force_refresh, reply) ==
    IF cache_time # NoTime /\ t - cache_time < JWKS_CACHE_DURATION
    THEN [jwks |-> cache, cache |-> cache, cache_time |-> cache_time,
          requests |-> 0, error |-> NoError]
    ELSE [jwks |-> served, cache |-> served, cache_time |-> t,
          requests |-> 1, error |-> NoError]

\* fetch_jwks: the key set returned, the cache after the call, the number of
\* GETs sent and the exception raised.
fetch_jwks(cache, cache_time, served, t, force_refresh, reply) ==
    IF ~force_refresh /\ cache_time # NoTime
           /\ t - cache_time < JWKS_CACHE_DURATION
    THEN [jwks |-> cache, cache |-> cache, cache_time |-> cache_time,
          requests |-> 0, error |-> NoError]
    ELSE CASE reply = "up" ->
                  [jwks |-> served, cache |-> served, cache_time |-> t,
                   requests |-> 1, error |-> NoError]
           [] reply = "down" ->
                  [jwks |-> {}, cache |-> cache, cache_time |-> cache_time,
                   requests |-> 1,
                   error |-> AuthMiddlewareError("Failed to fetch JWKS", 500)]
           [] OTHER ->
                  [jwks |-> {}, cache |-> cache, cache_time |-> cache_time,
                   requests |-> 1, error |-> OtherException]

\* Tokens as validate_jwt can be handed them: the bearer tokens, one whose
\* header has no kid and one whose header cannot be read.
MwTokens == Tokens \cup {"tok_nokid", "tok_garbage"}

\* jwt.get_unverified_header(token).get("kid")
token_kid(token) ==
    CASE token = "tok_bob" -> "kid2"
      [] token \in {"tok_nokid", "tok_garbage"} -> None
      [] OTHER -> "kid1"

\* _find_signing_key after the forced refresh: the second search.
find_after_refresh(kid, first, second) ==
    [found |-> second.error = NoError /\ kid \in second.jwks,
     cache |-> second.cache, cache_time |-> second.cache_time,
     requests |-> first.requests + second.requests, forced |-> 1,
     error |-> IF second.error # NoError THEN second.error
               ELSE IF kid \in second.jwks THEN NoError
               ELSE AuthMiddlewareError("No matching key found", 401)]

\* Goes on to the forced refresh when the first fetch failed.
find_after_fetch_retries(kid, first, served, t, r2) ==
    IF first.error = NoError /\ kid \in first.jwks
    THEN [found |-> TRUE, cache |-> first.cache,
          cache_time |-> first.cache_time, requests |-> first.requests,
          forced |-> 0, error |-> NoError]
    ELSE find_after_refresh(kid, first,
             fetch_jwks(first.cache, first.cache_time, served, t, TRUE, r2))

\* _find_signing_key after fetch_jwks(): the first search, and the forced
\* refresh when the key is not in what it returned.
find_after_fetch(kid, first, served, t, r2) ==
    IF first.error # NoError \/ kid \in first.jwks
    THEN [found |-> first.error = NoError, cache |-> first.cache,
          cache_time |-> first.cache_time, requests |-> first.requests,
          forced |-> 0, error |-> first.error]
    ELSE find_after_refresh(kid, first,
             fetch_jwks(first.cache, first.cache_time, served, t, TRUE, r2))

\* The refresh is forced whether or not the first search found the key.
find_signing_key_always_refreshes(cache, cache_time, served, t, token, r1, r2) ==
    LET first == fetch_jwks(cache, cache_time, served, t, FALSE, r1)
    IN  find_after_refresh(token_kid(token), first,
            fetch_jwks(first.cache, first.cache_time, served, t, TRUE, r2))

\* _find_signing_key: whether the key was found, the cache after the call,
\* the GETs sent, the forced refreshes made and the exception raised.  r1
\* answers the first fetch_jwks if it sends a GET, r2 the forced one.
find_signing_key(cache, cache_time, served, t, token, r1, r2) ==
    IF token_kid(token) = None
    THEN [found |-> FALSE, cache |-> cache, cache_time |-> cache_time,
          requests |-> 0, forced |-> 0,
          error |-> IF token = "tok_garbage"
                    THEN AuthMiddlewareError("Invalid token header", 401)
                    ELSE AuthMiddlewareError("No 'kid' in token header", 401)]
    ELSE find_after_fetch(token_kid(token),
             fetch_jwks(cache, cache_time, served, t, FALSE, r1),
             served, t, r2)

\* validate_jwt once _find_signing_key has returned or raised.
decode_with_key(key, claims) ==
    [ok |-> key.found /\ claims.ok,
     sub |-> IF key.found THEN claims.sub ELSE None,
     email |-> IF key.found THEN claims.email ELSE None,
     error |-> IF ~key.found THEN key.error
               ELSE IF ~claims.ok
               THEN AuthMiddlewareError("Token validation failed", 401)
               ELSE NoError,
     cache |-> key.cache, cache_time |-> key.cache_time,
     requests |-> key.requests, forced |-> key.forced]

\* validate_jwt with the key set looked up: the claims or the exception, and
\* what _find_signing_key did to the cache.
validate_jwt_keys(cache, cache_time, served, t, token, r1, r2) ==
    IF token = None
    THEN [ok |-> FALSE, sub |-> None, email |-> None,
          error |-> AuthMiddlewareError("No token provided", 401),
          cache |-> cache, cache_time |-> cache_time,
          requests |-> 0, forced |-> 0]
    ELSE decode_with_key(
             find_signing_key(cache, cache_time, served, t, token, r1, r2),
             validate_jwt(token))

\* A header is a text: a sequence of pieces, each a run of whitespace or a
\* run of other characters.  The empty text also stands for no header.
Whitespace == {" ", "\t"}

Headers ==
    {<<>>, <<"Bearer", " ", "tok_alice">>, <<"bearer", " ", "tok_bob">>,
     <<"Bearer", " ", "tok_bad">>, <<"Basic", " ", "tok_alice">>, <<"Bearer">>,
     <<"Bearer", " ", "tok_alice", " ", "x">>}

\* The characters of the pieces, one after the other.
RECURSIVE Join(_)
Join(pieces) ==
    IF pieces = <<>> THEN "" ELSE Head(pieces) \o Join(Tail(pieces))

\* Splits at every piece, whitespace or not.
RECURSIVE Split_every_piece(_, _, _)
Split_every_piece(text, word, parts) ==
    IF text = <<>> THEN parts
    ELSE IF Head(text) \in Whitespace
    THEN Split_every_piece(Tail(text), <<>>, parts)
    ELSE Split_every_piece(Tail(text), <<>>, Append(parts, <<Head(text)>>))

\* str.split(): the runs of characters between whitespace, none of them
\* empty; word is the run being read.
RECURSIVE Split(_, _, _)
Split(text, word, parts) ==
    IF text = <<>>
    THEN IF word = <<>> THEN parts ELSE Append(parts, word)
    ELSE IF Head(text) \in Whitespace
    THEN Split(Tail(text), <<>>,
               IF word = <<>> THEN parts ELSE Append(parts, word))
    ELSE Split(Tail(text), Append(word, Head(text)), parts)

\* str.lower() on the pieces headers are made of.
Lower(w) ==
    CASE w = "Bearer" -> "bearer"
      [] w = "BEARER" -> "bearer"
      [] w = "Basic" -> "basic"
      [] OTHER -> w

LowerWord(word) == Join([i \in 1..Len(word) |-> Lower(word[i])])

\* extract_bearer_token: the token, or the exception raised.
extract_bearer_token(authorization_header) ==
    LET parts == Split(authorization_header, <<>>, <<>>)
        failed(message) ==
            [token |-> None, error |-> AuthMiddlewareError(message, 401)]
    IN  IF authorization_header = <<>>
        THEN failed("Authorization header missing")
        ELSE IF Len(parts) # 2
        THEN failed("Invalid Authorization header format")
        ELSE IF LowerWord(parts[1]) # "bearer"
        THEN failed("Authorization type must be Bearer")
        ELSE [token |-> Join(parts[2]), error |-> NoError]

\* AuthMiddleware.authenticate choosing its token: bearer_token if given,
\* else the header's.
token_to_validate(authorization_header, bearer_token) ==
    IF bearer_token # None
    THEN [token |-> bearer_token, error |-> NoError]
    ELSE IF authorization_header # <<>>
    THEN extract_bearer_token(authorization_header)
    ELSE [token |-> None,
          error |-> AuthMiddlewareError("No token provided", 401)]

\* The try block ending in an exception.
authenticate_raises(st, error, cache, cache_time) ==
    [error |-> error, user_id |-> None, session_id |-> NoSid, store |-> st,
     cache |-> cache, cache_time |-> cache_time]

\* The try block once the user id is known: the session is loaded and its
\* activity updated.
authenticate_session(st, t, claims, session) ==
    [error |-> NoError, user_id |-> claims.sub,
     session_id |-> session.session_id,
     store |-> IF session # NoSession
               THEN update_last_activity(st, session.session_id, t) ELSE st,
     cache |-> claims.cache, cache_time |-> claims.cache_time]

\* The try block once validate_jwt has returned or raised.
authenticate_claims(st, t, claims) ==
    IF claims.error # NoError
    THEN authenticate_raises(st, claims.error, claims.cache, claims.cache_time)
    ELSE IF claims.sub = None
    THEN authenticate_raises(st,
             AuthMiddlewareError("No 'sub' claim in token", 401),
             claims.cache, claims.cache_time)
    ELSE authenticate_session(st, t, claims,
                              get_session_by_user_id(st, claims.sub))

\* The try block once the token is chosen.
authenticate_token(st, cache, cache_time, served, t, extracted, r1, r2) ==
    IF extracted.error # NoError
    THEN authenticate_raises(st, extracted.error, cache, cache_time)
    ELSE authenticate_claims(st, t,
             validate_jwt_keys(cache, cache_time, served, t,
                               extracted.token, r1, r2))

\* Without the `except Exception` clause.
authenticate_returns_own_errors_only(try) ==
    [raised |-> try.error.kind = "Exception",
     authenticated |-> try.error = NoError,
     error |-> try.error.message, status_code |-> try.error.status_code,
     user_id |-> try.user_id, session_id |-> try.session_id,
     store |-> try.store, cache |-> try.cache, cache_time |-> try.cache_time]

\* The two except clauses and the return of AuthMiddleware.authenticate:
\* the dict returned, and whether an exception left the method.
authenticate_returns(try) ==
    [raised |-> FALSE,
     authenticated |-> try.error = NoError,
     error |-> try.error.message, status_code |-> try.error.status_code,
     user_id |-> try.user_id, session_id |-> try.session_id,
     store |-> try.store, cache |-> try.cache, cache_time |-> try.cache_time]

\* AuthMiddleware.authenticate: the dict it returns (or that it raised), and
\* the store and the key-set cache after it.
authenticate(st, cache, cache_time, served, t, authorization_header, bearer_token, r1, r2) ==
    authenticate_returns(
        authenticate_token(st, cache, cache_time, served, t,
            token_to_validate(authorization_header, bearer_token), r1, r2))

\* -------------------------------------------- AuthMiddleware.validate_session
\* A datetime: its minute, and whether it carries a UTC offset.
\* datetime.utcnow() carries none.
utcnow(t) == [minute |-> t, aware |-> FALSE]

\* datetime.fromisoformat of a stored timestamp whose "Z" was replaced by
\* "+00:00": a datetime with an offset.
fromisoformat_offset(stamp) == [minute |-> stamp, aware |-> TRUE]

\* a < b on datetimes: TypeError when only one of the two has an offset.
datetime_lt(a, b) ==
    [raised |-> a.aware # b.aware, value |-> a.minute < b.minute]

\* f"Session is {status}"
SessionIs(status) ==
    CASE status = "idle" -> "Session is idle"
      [] status = "expired" -> "Session is expired"
      [] OTHER -> "Session is unknown"

\* What validate_session returns when it returns.
validation_result(valid, error, st) ==
    [valid |-> valid, error |-> error, raised |-> FALSE, store |-> st]

\* validate_session once the session is known to be active: the comparison
\* of its expires_at with the current time, and what follows from it.
validate_session_expiry(st, session_id, expired) ==
    IF expired.raised
    THEN [valid |-> FALSE, error |-> "TypeError", raised |-> TRUE,
          store |-> st]
    ELSE IF expired.value
    THEN validation_result(FALSE, "Session has expired",
                           invalidate_session(st, session_id))
    ELSE validation_result(TRUE, None, st)

\* AuthMiddleware.validate_session: the dict returned or the exception
\* raised, and the store after the call.
validate_session(st, session_id, t) ==
    IF get_session(st, session_id) = NoSession
    THEN validation_result(FALSE, "Session not found", st)
    ELSE IF get_session(st, session_id).status # "active"
    THEN validation_result(FALSE,
                           SessionIs(get_session(st, session_id).status), st)
    ELSE validate_session_expiry(st, session_id,
             datetime_lt(fromisoformat_offset(
                             get_session(st, session_id).expires_at),
                         utcnow(t)))

\* ------------------------------------------------- validate_session_for_tool
\* Tries the token when the session_id matches no session.
ResolveSession_falls_back(st, session_id, bearer_token) ==
    IF session_id # NoSid /\ get_session(st, session_id) # NoSession
    THEN get_session(st, session_id)
    ELSE IF bearer_token # None /\ validate_jwt(bearer_token).ok
              /\ validate_jwt(bearer_token).sub # None
         THEN get_session_by_user_id(st, validate_jwt(bearer_token).sub)
         ELSE NoSession

\* The session the validator resolves: by session_id when one is given, else
\* by the token's subject.
ResolveSession(st, session_id, bearer_token) ==
    IF session_id # NoSid
    THEN get_session(st, session_id)
    ELSE IF bearer_token # None /\ validate_jwt(bearer_token).ok
              /\ validate_jwt(bearer_token).sub # None
         THEN get_session_by_user_id(st, validate_jwt(bearer_token).sub)
         ELSE NoSession

\* The session clear_session_impl finds: by session_id, and when that finds
\* none, by the subject of the bearer token.
clear_session_find(st, session_id, bearer_token) ==
    IF session_id # NoSid /\ get_session(st, session_id) # NoSession
    THEN get_session(st, session_id)
    ELSE IF bearer_token # None /\ validate_jwt(bearer_token).ok
              /\ validate_jwt(bearer_token).sub # None
         THEN get_session_by_user_id(st, validate_jwt(bearer_token).sub)
         ELSE NoSession

\* The store after the clearSession tool.
clear_session_impl(st, session_id, bearer_token, clear_conversation_only) ==
    LET session == clear_session_find(st, session_id, bearer_token)
    IN  IF session = NoSession THEN st
        ELSE IF clear_conversation_only
             THEN clear_conversation(st, session.session_id)
             ELSE invalidate_session(st, session.session_id)

\* Its "success".
clear_session_impl_success(st, session_id, bearer_token) ==
    clear_session_find(st, session_id, bearer_token) # NoSession

\* Reports the expiry without marking the session.
validate_session_for_tool_readonly(st, session_id, bearer_token, t) ==
    LET session == ResolveSession(st, session_id, bearer_token)
    IN  IF session = NoSession THEN st
        ELSE IF session.status # "active" THEN st
        ELSE IF session.expires_at < t THEN st
        ELSE update_last_activity(st, session.session_id, t)

\* Updates last_activity before it looks at the status.
validate_session_for_tool_touches_first(st, session_id, bearer_token, t) ==
    LET session == ResolveSession(st, session_id, bearer_token)
    IN  IF session = NoSession THEN st
        ELSE update_last_activity(st, session.session_id, t)

\* The store after validate_session_for_tool(session_id, bearer_token).
validate_session_for_tool(st, session_id, bearer_token, t) ==
    LET session == ResolveSession(st, session_id, bearer_token)
    IN  IF session = NoSession THEN st
        ELSE IF session.status # "active" THEN st
        ELSE IF session.expires_at < t
             THEN update_session_status(st, session.session_id, "expired")
        ELSE update_last_activity(st, session.session_id, t)

\* What validate_session_for_tool returns: "valid", or the error.
validate_session_for_tool_error(st, session_id, bearer_token, t) ==
    LET session == ResolveSession(st, session_id, bearer_token)
    IN  IF session_id # NoSid /\ session = NoSession THEN "Session not found"
        ELSE IF session_id = NoSid /\ bearer_token # None
                /\ ~validate_jwt(bearer_token).ok
             THEN "Token validation failed"
        ELSE IF session_id = NoSid /\ bearer_token # None
                /\ validate_jwt(bearer_token).sub # None /\ session = NoSession
             THEN "No session found for this token"
        ELSE IF session = NoSession THEN "No session_id or bearer_token provided"
        ELSE IF session.status # "active" THEN "Session is not active"
        ELSE IF session.expires_at < t THEN "Session has expired"
        ELSE "valid"

\* The identity fields of the dict validate_session_for_tool returns when the
\* session is valid.
validate_session_for_tool_identity(st, session_id, bearer_token) ==
    [session_id |-> ResolveSession(st, session_id, bearer_token).session_id,
     user_id |-> ResolveSession(st, session_id, bearer_token).user_id]

\* ------------------------------------------------- token files and chats
Chats == {"c1", "c2"}
FileAbsent == "absent"
FileEmpty == ""
NoResult ==
    [tool |-> None, keys |-> {}, ok |-> FALSE, email |-> None,
     token |-> None, session_id |-> NoSid]

\* How `with open(path, "w") as f: f.write(id_token)` can end: written, open
\* raised (the file is as it was), or write raised after the truncation.
WriteOutcomes == {"ok", "open_failed", "write_failed"}

write_file(old, id_token, outcome) ==
    CASE outcome = "ok" -> id_token
      [] outcome = "open_failed" -> old
      [] OTHER -> FileEmpty

\* What the browser login and the token endpoint can hand to
\* authenticate_user_impl.
AuthFlows ==
    [stage : {"callback_failed", "exchange_failed", "no_id_token"},
     id_token : {None}, server_write : {"ok"}, client_write : {"ok"}]
    \cup
    [stage : {"id_token"}, id_token : Tokens,
     server_write : WriteOutcomes, client_write : WriteOutcomes]

\* _validate_id_token: the claims of the id token, or the exception raised.
validate_id_token(id_token) == validate_jwt(id_token)

\* _store_tokens: the two token files after it.
store_tokens(server, client, path_configured, id_token, flow) ==
    [server_token |-> write_file(server, id_token, flow.server_write),
     client_token |-> IF path_configured
                      THEN write_file(client, id_token, flow.client_write)
                      ELSE client]

AuthenticatedKeys ==
    {"authenticated", "email", "name", "okta_domain", "client_id",
     "client_secret", "redirect_uri", "issuer", "auth_url",
     "presentation_line", "token", "token_storage", "instruction",
     "next_step"}

\* authenticate_user_impl: the token files after it and the dict it returns.
\* The id token is stored before it is validated.
authenticate_user_impl(server, client, path_configured, flow) ==
    LET failed(keys) ==
            [tool |-> "authenticate_user", keys |-> keys, ok |-> FALSE,
             email |-> None, token |-> None, session_id |-> NoSid]
    IN  IF flow.stage \in {"callback_failed", "exchange_failed"}
        THEN [server_token |-> server, client_token |-> client,
              result |-> failed({"authenticated", "error", "instruction"})]
        ELSE IF flow.stage = "no_id_token"
        THEN [server_token |-> server, client_token |-> client,
              result |-> failed({"authenticated", "error"})]
        ELSE LET stored == store_tokens(server, client, path_configured,
                                        flow.id_token, flow)
                 claims == validate_id_token(flow.id_token)
             IN  [server_token |-> stored.server_token,
                  client_token |-> stored.client_token,
                  result |->
                      IF claims.ok
                      THEN [tool |-> "authenticate_user",
                            keys |-> AuthenticatedKeys, ok |-> TRUE,
                            email |-> claims.email, token |-> flow.id_token,
                            session_id |-> NoSid]
                      ELSE failed({"authenticated", "error", "instruction"})]

\* _read_token: the token of a file, or the error for a path that is not
\* configured, a missing file or an empty one.  Id tokens carry no white
\* space, so strip() leaves the token as it was written.
read_token(path_configured, content) ==
    IF ~path_configured THEN [token |-> None, error |-> "path not configured"]
    ELSE IF content = FileAbsent THEN [token |-> None, error |-> "file not found"]
    ELSE IF content = FileEmpty THEN [token |-> None, error |-> "file is empty"]
    ELSE [token |-> content, error |-> None]

\* compare_token_impl: tokens_match of the dict it returns.
compare_token_impl(server, client, path_configured) ==
    LET server_read == read_token(TRUE, server)
        client_read == read_token(path_configured, client)
    IN  IF server_read.error # None THEN FALSE
        ELSE IF client_read.error # None THEN FALSE
        ELSE server_read.token = client_read.token

\* ------------------------------------------------------------ session_info
\* The session get_session_info_impl looks up: by session_id first, then by
\* the subject of the bearer token.
session_info_session(st, session_id, bearer_token) ==
    IF session_id # NoSid /\ get_session(st, session_id) # NoSession
    THEN get_session(st, session_id)
    ELSE IF bearer_token # None /\ validate_jwt(bearer_token).ok
              /\ validate_jwt(bearer_token).sub # None
    THEN get_session_by_user_id(st, validate_jwt(bearer_token).sub)
    ELSE NoSession

\* The dict get_session_info_impl builds from what get_session_info returned.
session_info_summary(session_info) ==
    IF ~session_info.found
    THEN [success |-> FALSE]
    ELSE [success |-> TRUE,
          session_id |-> session_info.session.session_id,
          user_id |-> session_info.session.user_id,
          created_at |-> session_info.session.created_at,
          last_activity |-> session_info.session.last_activity,
          expires_at |-> session_info.session.expires_at,
          status |-> session_info.session.status,
          conversation_count |-> session_info.conversation_count,
          metadata |-> session_info.session.metadata]

\* get_session_info_impl: the dict the getSessionInfo tool returns.
get_session_info_impl(st, session_id, bearer_token) ==
    session_info_summary(
        get_session_info(st,
            session_info_session(st, session_id, bearer_token).session_id))

\* ------------------------------------------------------------ session tools
\* The session chat_memory_impl, update_session_state_impl and
\* get_session_state_impl find: by session_id, and when that finds none, by
\* the subject of the bearer token.  Status and expires_at are not read.
tool_find_session(st, session_id, bearer_token) ==
    IF session_id # NoSid /\ get_session(st, session_id) # NoSession
    THEN get_session(st, session_id)
    ELSE IF bearer_token # None /\ validate_jwt(bearer_token).ok
              /\ validate_jwt(bearer_token).sub # None
    THEN get_session_by_user_id(st, validate_jwt(bearer_token).sub)
    ELSE NoSession

\* The actions chatMemory is called with, and whether the message to append
\* has its role and content.
ChatActions == {"read", "append", "other"}

\* The store after chat_memory_impl.
chat_memory_impl(st, session_id, bearer_token, action, message_ok, mid, t) ==
    IF tool_find_session(st, session_id, bearer_token) = NoSession THEN st
    ELSE IF action = "append" /\ message_ok
    THEN add_message(st,
             tool_find_session(st, session_id, bearer_token).session_id,
             mid, t)
    ELSE st

\* Its "success".
chat_memory_impl_success(st, session_id, bearer_token, action, message_ok) ==
    /\ tool_find_session(st, session_id, bearer_token) # NoSession
    /\ \/ action = "read"
       \/ /\ action = "append"
          /\ message_ok
          /\ tool_find_session(st, session_id, bearer_token).session_id
                 \in DOMAIN st.conversations

\* The store after update_session_state_impl.
update_session_state_impl(st, session_id, bearer_token, state) ==
    IF tool_find_session(st, session_id, bearer_token) = NoSession THEN st
    ELSE update_state(st,
             tool_find_session(st, session_id, bearer_token).session_id,
             state)

update_session_state_impl_success(st, session_id, bearer_token) ==
    /\ tool_find_session(st, session_id, bearer_token) # NoSession
    /\ update_state_result(st,
           tool_find_session(st, session_id, bearer_token).session_id)

\* get_session_state_impl: "success" and "state" of the dict it returns.
get_session_state_impl(st, session_id, bearer_token) ==
    IF tool_find_session(st, session_id, bearer_token) = NoSession
    THEN [success |-> FALSE, state |-> NoDict]
    ELSE [success |-> TRUE,
          state |-> get_state(st,
              tool_find_session(st, session_id, bearer_token).session_id).state]

\* -------------------------------------------------------------------- agent
Intents ==
    {"SEARCH", "CREATE", "UPDATE", "HELP", "UNKNOWN", "search", "help"}

\* str.upper() on the intents above.
Upper(s) ==
    CASE s = "search" -> "SEARCH"
      [] s = "help" -> "HELP"
      [] OTHER -> s

UserTypes ==
    {"Inquiry User", "Administrator", "Records Manager",
     "Records Co-ordinator", "Knowledge Worker", "Contributor", "Unknown"}

\* What the Content Manager Location lookup can answer.
\* The lookups that give no user: an error status, an exception (no
\* connection, a body that is not the expected JSON), an empty result list.
LookupFailures == {"http_error", "raises", "not_found"}

CMResponses == LookupFailures \cup UserTypes

\* A map in which a Contributor may update and an unlisted role may search.
AUTHORIZATION_MAP_widened(user_type) ==
    CASE user_type \in {"Administrator", "Records Manager",
                        "Records Co-ordinator", "Knowledge Worker",
                        "Contributor"} ->
             {"SEARCH", "CREATE", "UPDATE"}
      [] OTHER -> {"SEARCH"}

\* AUTHORIZATION_MAP.get(user_type, [])
AUTHORIZATION_MAP(user_type) ==
    CASE user_type = "Inquiry User" -> {"SEARCH"}
      [] user_type \in {"Administrator", "Records Manager",
                        "Records Co-ordinator", "Knowledge Worker"} ->
             {"SEARCH", "CREATE", "UPDATE"}
      [] user_type = "Contributor" -> {"SEARCH", "CREATE"}
      [] OTHER -> {}

\* The intent is compared as it was given.
check_authorization_impl_as_given(cm_response, i) ==
    IF cm_response \in LookupFailures THEN FALSE
    ELSE IF i = "HELP" THEN TRUE
    ELSE i \in AUTHORIZATION_MAP(cm_response)

\* Refuses on an error status and on an empty result only.
check_authorization_impl_fails_open(cm_response, i) ==
    IF cm_response \in {"http_error", "not_found"} THEN FALSE
    ELSE IF Upper(i) = "HELP" THEN TRUE
    ELSE Upper(i) \in AUTHORIZATION_MAP(cm_response)

\* check_authorization_impl: authorized of the dict it returns.
check_authorization_impl(cm_response, i) ==
    IF cm_response \in LookupFailures THEN FALSE
    ELSE IF Upper(i) = "HELP" THEN TRUE
    ELSE Upper(i) \in AUTHORIZATION_MAP(cm_response)

\* user_type of the dict check_authorization_impl returns: the type read
\* from the user the lookup found, absent when it found none.
check_authorization_user_type(cm_response) ==
    IF cm_response \in LookupFailures THEN None ELSE cm_response

\* ActionPlanGenerator.run
ActionPlanGenerator_run(i) ==
    [message |-> "Use generate_action_plan_impl() for MCP flow", intent |-> i]

\* _execute_via_mcp up to its tool call: the tool the plan maps to.
execute_tool_name(action_plan) ==
    LET method == IF "method" \in DOMAIN action_plan
                  THEN action_plan.method ELSE None
        operation == IF "operation" \in DOMAIN action_plan
                     THEN Upper(action_plan.operation) ELSE ""
    IN  IF method = "GET" \/ operation = "SEARCH" THEN "search_records"
        ELSE IF method = "POST" /\ operation = "CREATE" THEN "create_record"
        ELSE IF method = "POST" /\ operation = "UPDATE" THEN "update_record"
        ELSE "Unsupported operation"

ExecutionTools == {"search_records", "create_record", "update_record"}

\* Where handle_query goes once step 1 is behind it.
after_authentication(validated) ==
    IF ~validated THEN "validate_email" ELSE "detect_intent"

after_check_authorization_ignored(authorized) == "generate_action_plan"

\* Where handle_query goes after check_authorization answered.
after_check_authorization(authorized) ==
    IF ~authorized THEN "idle" ELSE "generate_action_plan"

\* ---------------------------------------------------------------- storage
\* The storage directory: what the session_<id>.json, conversation_<id>.json
\* and cache_<id>.json files hold.  An empty directory:
NoFiles == [sessions |-> <<>>, conversations |-> <<>>, caches |-> <<>>]

\* _save_session writes the session the table holds, if it holds one.
save_session(files, st, sid) ==
    IF sid \in DOMAIN st.sessions
    THEN [files EXCEPT !.sessions = Put(@, sid, st.sessions[sid])]
    ELSE files

save_conversation(files, st, sid) ==
    [files EXCEPT !.conversations =
        Put(@, sid, IF sid \in DOMAIN st.conversations
                    THEN st.conversations[sid] ELSE <<>>)]

save_cache(files, st, sid) ==
    [files EXCEPT !.caches =
        Put(@, sid, IF sid \in DOMAIN st.caches
                    THEN st.caches[sid] ELSE NoDict)]

\* The directory after invalidate_session: the session is saved with status
\* "expired" before it leaves the table; no file is removed.
invalidate_session_files(files, st, sid) ==
    IF sid \in DOMAIN st.sessions
    THEN save_session(files, update_session_status(st, sid, "expired"), sid)
    ELSE files

\* The directory after create_session: the files of the session it
\* invalidated, then the three files of the new one.
create_session_files(files, st, user_id, sid, t) ==
    save_cache(
        save_conversation(
            save_session(
                IF GetSid(st.user_sessions, user_id) # NoSid
                THEN invalidate_session_files(files, st,
                         GetSid(st.user_sessions, user_id))
                ELSE files,
                create_session(st, user_id, sid, t), sid),
            create_session(st, user_id, sid, t), sid),
        create_session(st, user_id, sid, t), sid)

\* The directory after add_message: update_last_activity saves the session,
\* then the conversation and the cache are saved.
add_message_files(files, st, sid, mid, t) ==
    IF sid \notin DOMAIN st.conversations
    THEN files
    ELSE save_cache(
             save_conversation(
                 save_session(files, add_message(st, sid, mid, t), sid),
                 add_message(st, sid, mid, t), sid),
             add_message(st, sid, mid, t), sid)

\* The user indexes _load_sessions can end with: os.listdir gives the files
\* in no particular order and the entry of a user is the session of the
\* file read last.
LoadedIndexes(files) ==
    LET users == {files.sessions[sid].user_id : sid \in DOMAIN files.sessions}
    IN  {ix \in [users -> DOMAIN files.sessions] :
            \A u \in users : files.sessions[ix[u]].user_id = u}

\* _load_sessions: every session file is loaded, with its conversation and
\* cache when their files exist.
load_sessions(files, index) ==
    [sessions |-> files.sessions,
     user_sessions |-> index,
     conversations |->
         [sid \in DOMAIN files.sessions \cap DOMAIN files.conversations
              |-> files.conversations[sid]],
     caches |->
         [sid \in DOMAIN files.sessions \cap DOMAIN files.caches
              |-> files.caches[sid]]]

\* ------------------------------------------------------------------ actions
Apply(st) ==
    /\ sessions' = st.sessions
    /\ user_sessions' = st.user_sessions
    /\ conversations' = st.conversations
    /\ caches' = st.caches

Tick ==
    /\ now < MaxTime
    /\ now' = now + 1
    /\ UNCHANGED <<store_vars, next_sid, next_mid>>
    /\ UNCHANGED outside_store

CreateSession(user_id) ==
    /\ next_sid <= MaxSessions
    /\ Apply(create_session(Store, user_id, next_sid, now))
    /\ next_sid' = next_sid + 1
    /\ UNCHANGED <<now, next_mid>>
    /\ UNCHANGED outside_store

InvalidateSession(sid) ==
    /\ Apply(invalidate_session(Store, sid))
    /\ UNCHANGED <<now, next_sid, next_mid>>
    /\ UNCHANGED outside_store

UpdateLastActivity(sid) ==
    /\ Apply(update_last_activity(Store, sid, now))
    /\ UNCHANGED <<now, next_sid, next_mid>>
    /\ UNCHANGED outside_store

UpdateSessionStatus(sid, status) ==
    /\ Apply(update_session_status(Store, sid, status))
    /\ UNCHANGED <<now, next_sid, next_mid>>
    /\ UNCHANGED outside_store

AddMessage(sid) ==
    /\ next_mid <= MaxMessages
    /\ Apply(add_message(Store, sid, next_mid, now))
    /\ next_mid' = IF sid \in DOMAIN conversations THEN next_mid + 1 ELSE next_mid
    /\ UNCHANGED <<now, next_sid>>
    /\ UNCHANGED outside_store

CheckIdleSessions ==
    /\ Apply(check_idle_sessions(Store, now))
    /\ UNCHANGED <<now, next_sid, next_mid>>
    /\ UNCHANGED outside_store

CleanupExpiredSessions ==
    /\ Apply(cleanup_expired_sessions(Store, now))
    /\ UNCHANGED <<now, next_sid, next_mid>>
    /\ UNCHANGED outside_store

\* The validateSession tool: validate_session_for_tool(session_id, bearer_token)
\* with require_active left at its default, True.
ValidateSession(session_id, bearer_token) ==
    /\ Apply(validate_session_for_tool(Store, session_id, bearer_token, now))
    /\ UNCHANGED <<now, next_sid, next_mid>>
    /\ UNCHANGED outside_store

StoreNext ==
    \/ Tick
    \/ \E u \in Users : CreateSession(u)
    \/ \E sid \in SessionIds : InvalidateSession(sid)
    \/ \E sid \in SessionIds : UpdateLastActivity(sid)
    \/ \E sid \in SessionIds, status \in Statuses :
           UpdateSessionStatus(sid, status)
    \/ \E sid \in SessionIds : AddMessage(sid)
    \/ CheckIdleSessions
    \/ CleanupExpiredSessions
    \/ \E sid \in SessionIds \cup {NoSid}, tok \in Tokens \cup {None} :
           ValidateSession(sid, tok)

\* The store after construction with an empty storage directory.
StoreInit ==
    /\ sessions = <<>>
    /\ user_sessions = <<>>
    /\ conversations = <<>>
    /\ caches = <<>>
    /\ now = 0
    /\ next_sid = 1

TaskInit ==
    /\ task_pc = [t \in Tasks |-> "idle"]
    /\ task_user = [t \in Tasks |-> None]
    /\ task_existing = [t \in Tasks |-> NoSid]

\* No token file written yet and no chat started.
FileInit ==
    /\ server_token = FileAbsent
    /\ client_token = FileAbsent
    /\ session_files = NoFiles

ChatInit ==
    /\ chat_user = [c \in Chats |-> None]
    /\ last_result = NoResult

\* Agent.__init__
AgentInit ==
    /\ authenticated_email = None
    /\ user_validated = FALSE
    /\ agent_pc = "idle"
    /\ queries = 0
    /\ calls = <<>>
    /\ intent = None
    /\ response = None

\* No key set fetched yet; the identity provider serves every key.
JwksInit ==
    /\ jwks_cache = {}
    /\ jwks_cache_time = NoTime
    /\ idp_keys = Kids

vars == <<sessions, user_sessions, conversations, caches,
          now, next_sid, next_mid, task_pc, task_user, task_existing,
          server_token, client_token, client_token_path, session_files,
          chat_user, last_result,
          authenticated_email, user_validated, agent_pc, queries,
          calls, intent, response,
          jwks_cache, jwks_cache_time, idp_keys>>

\* The session lifecycle is followed with room for one message; the
\* conversation specification starts the message counter at 1.
Init ==
    /\ StoreInit
    /\ next_mid = MaxMessages
    /\ TaskInit
    /\ FileInit
    /\ client_token_path = TRUE
    /\ ChatInit
    /\ AgentInit
    /\ JwksInit

Next == StoreNext

Spec == Init /\ [][Next]_vars

\* ============================================ concurrent create_session
\* create_session up to its await: reads the user's existing session id.  With
\* one to invalidate, the coroutine stands at `await self.invalidate_session`;
\* with none, it runs to its end.
CreateBegin(t, user_id) ==
    /\ task_pc[t] = "idle"
    /\ next_sid <= MaxSessions
    /\ LET existing_session_id == GetSid(user_sessions, user_id)
       IN  IF existing_session_id # NoSid
           THEN /\ task_pc' = [task_pc EXCEPT ![t] = "await_invalidate"]
                /\ task_user' = [task_user EXCEPT ![t] = user_id]
                /\ task_existing' = [task_existing EXCEPT ![t] = existing_session_id]
                /\ UNCHANGED <<store_vars, next_sid>>
           ELSE /\ Apply(create_session_from(Store, NoSid, user_id, next_sid, now))
                /\ next_sid' = next_sid + 1
                /\ UNCHANGED task_vars
    /\ UNCHANGED <<now, next_mid>>
    /\ UNCHANGED <<file_vars, chat_vars, agent_vars, jwks_vars>>

\* create_session from its await on: invalidates the session id it read, then
\* stores the new session.
CreateResume(t) ==
    /\ task_pc[t] = "await_invalidate"
    /\ next_sid <= MaxSessions
    /\ Apply(create_session_from(Store, task_existing[t], task_user[t],
                                 next_sid, now))
    /\ next_sid' = next_sid + 1
    /\ task_pc' = [task_pc EXCEPT ![t] = "idle"]
    /\ task_user' = [task_user EXCEPT ![t] = None]
    /\ task_existing' = [task_existing EXCEPT ![t] = NoSid]
    /\ UNCHANGED <<now, next_mid>>
    /\ UNCHANGED <<file_vars, chat_vars, agent_vars, jwks_vars>>

ConcNext ==
    \/ \E t \in Tasks, u \in Users : CreateBegin(t, u)
    \/ \E t \in Tasks : CreateResume(t)
    \/ \E sid \in SessionIds : InvalidateSession(sid)
    \/ \E sid \in SessionIds : AddMessage(sid)
    \/ Tick

SpecConc == Init /\ [][ConcNext]_vars


\* get_conversation reads the conversation and writes nothing.
GetConversation(sid, limit, offset) ==
    /\ get_conversation(Store, sid, limit, offset) \in Seq(1..MaxMessages)
    /\ UNCHANGED vars

\* ------------------------------------------------------ conversation spec
ConvNext ==
    \/ \E u \in Users : CreateSession(u)
    \/ \E sid \in SessionIds : AddMessage(sid)
    \/ \E sid \in SessionIds : InvalidateSession(sid)
    \/ \E sid \in SessionIds, limit \in {NoLimit} \cup (0..MaxLimit),
          offset \in 0..MaxLimit : GetConversation(sid, limit, offset)

ConvInit ==
    /\ StoreInit
    /\ next_mid = 1
    /\ TaskInit
    /\ FileInit
    /\ client_token_path = TRUE
    /\ ChatInit
    /\ AgentInit
    /\ JwksInit

SpecConv == ConvInit /\ [][ConvNext]_vars

\* ------------------------------------------------------------- cache spec
\* What callers put into a cache.
Summaries == {<<"summary">>}

StateValues == {NoDict, [step |-> 1], [mode |-> 2]}

Preferences == {[theme |-> "dark"]}

CacheData ==
    {[conversation_summary |-> x] : x \in Summaries}
        \cup {[last_messages |-> <<>>]}

ClearConversation(sid) ==
    /\ Apply(clear_conversation(Store, sid))
    /\ UNCHANGED <<now, next_sid, next_mid>>
    /\ UNCHANGED outside_store

UpdateCache(sid, data) ==
    /\ Apply(update_cache(Store, sid, data))
    /\ UNCHANGED <<now, next_sid, next_mid>>
    /\ UNCHANGED outside_store

UpdateState(sid, state) ==
    /\ Apply(update_state(Store, sid, state))
    /\ UNCHANGED <<now, next_sid, next_mid>>
    /\ UNCHANGED outside_store

UpdateUserPreferences(sid, preferences) ==
    /\ Apply(update_user_preferences(Store, sid, preferences))
    /\ UNCHANGED <<now, next_sid, next_mid>>
    /\ UNCHANGED outside_store

\* The clearSession tool.
ClearSession(session_id, bearer_token, clear_conversation_only) ==
    /\ Apply(clear_session_impl(Store, session_id, bearer_token,
                                clear_conversation_only))
    /\ UNCHANGED <<now, next_sid, next_mid>>
    /\ UNCHANGED outside_store

CacheNext ==
    \/ \E u \in Users : CreateSession(u)
    \/ \E sid \in SessionIds : InvalidateSession(sid)
    \/ \E sid \in SessionIds : AddMessage(sid)
    \/ \E sid \in SessionIds : ClearConversation(sid)
    \/ \E sid \in SessionIds, data \in CacheData : UpdateCache(sid, data)
    \/ \E sid \in SessionIds, state \in StateValues : UpdateState(sid, state)
    \/ \E sid \in SessionIds, preferences \in Preferences :
           UpdateUserPreferences(sid, preferences)
    \/ \E sid \in SessionIds \cup {NoSid}, tok \in Tokens \cup {None},
          only \in BOOLEAN : ClearSession(sid, tok, only)

\* An empty store with two session ids and two message ids left to draw.
CacheInit ==
    /\ sessions = <<>>
    /\ user_sessions = <<>>
    /\ conversations = <<>>
    /\ caches = <<>>
    /\ now = 0
    /\ next_sid = MaxSessions - 1
    /\ next_mid = MaxMessages - 1
    /\ TaskInit
    /\ FileInit
    /\ client_token_path = TRUE
    /\ ChatInit
    /\ AgentInit
    /\ JwksInit

SpecCache == CacheInit /\ [][CacheNext]_vars

\* ------------------------------------------------------------ restart spec
\* What the store's operations, taken with their saves, leave alone.
outside_storage == <<task_vars, token_files, chat_vars, agent_vars, jwks_vars>>

CreateSessionSaved(user_id) ==
    /\ next_sid <= MaxSessions
    /\ Apply(create_session(Store, user_id, next_sid, now))
    /\ session_files' =
           create_session_files(session_files, Store, user_id, next_sid, now)
    /\ next_sid' = next_sid + 1
    /\ UNCHANGED <<now, next_mid>>
    /\ UNCHANGED outside_storage

InvalidateSessionSaved(sid) ==
    /\ Apply(invalidate_session(Store, sid))
    /\ session_files' = invalidate_session_files(session_files, Store, sid)
    /\ UNCHANGED <<now, next_sid, next_mid>>
    /\ UNCHANGED outside_storage

AddMessageSaved(sid) ==
    /\ next_mid <= MaxMessages
    /\ Apply(add_message(Store, sid, next_mid, now))
    /\ session_files' =
           add_message_files(session_files, Store, sid, next_mid, now)
    /\ next_mid' = IF sid \in DOMAIN conversations THEN next_mid + 1 ELSE next_mid
    /\ UNCHANGED <<now, next_sid>>
    /\ UNCHANGED outside_storage

\* The process is started again: SessionStore.__init__ builds the tables
\* from the storage directory.
Restart(index) ==
    /\ Apply(load_sessions(session_files, index))
    /\ UNCHANGED <<now, next_sid, next_mid, session_files>>
    /\ UNCHANGED outside_storage

RestartNext ==
    \/ Tick
    \/ \E u \in Users : CreateSessionSaved(u)
    \/ \E sid \in SessionIds : InvalidateSessionSaved(sid)
    \/ \E sid \in SessionIds : AddMessageSaved(sid)
    \/ \E index \in LoadedIndexes(session_files) : Restart(index)

SpecRestart == Init /\ [][RestartNext]_vars

\* ------------------------------------------------- authentication tools
\* The authenticate_user tool called from chat c.
AuthenticateUser(c, flow) ==
    LET out == authenticate_user_impl(server_token, client_token,
                                      client_token_path, flow)
    IN  /\ server_token' = out.server_token
        /\ client_token' = out.client_token
        /\ last_result' = out.result
        /\ chat_user' = IF out.result.ok
                        THEN [chat_user EXCEPT ![c] = out.result.email]
                        ELSE chat_user
        /\ UNCHANGED <<store_vars, now, next_sid, next_mid, task_vars, jwks_vars,
                       client_token_path, session_files, agent_vars>>

\* compare_token_impl called from chat c.
CompareToken(c) ==
    /\ chat_user[c] # None
    /\ last_result' =
           [tool |-> "compare_token",
            keys |-> IF compare_token_impl(server_token, client_token,
                                           client_token_path)
                     THEN {"tokens_match", "verified", "message",
                           "instruction", "next_step"}
                     ELSE {"tokens_match", "verified", "error",
                           "instruction", "next_step"},
            ok |-> compare_token_impl(server_token, client_token,
                                      client_token_path),
            email |-> None, token |-> None, session_id |-> NoSid]
    /\ UNCHANGED <<store_vars, now, next_sid, next_mid, task_vars, jwks_vars,
                   file_vars, chat_user, agent_vars>>

\* The createSessionFromToken tool: create_session_from_token_impl.
CreateSessionFromToken(bearer_token, iv, raised) ==
    LET claims == validate_jwt(bearer_token)
        encrypted_token == encrypt_token(TOKEN_ENCRYPTION_SECRET,
                                         TokenText(bearer_token), iv, raised)
        failed == [tool |-> "createSessionFromToken",
                   keys |-> {"success", "error"}, ok |-> FALSE,
                   email |-> None, token |-> None, session_id |-> NoSid]
    IN  /\ next_sid <= MaxSessions
        /\ IF claims.ok /\ claims.sub # None
           THEN /\ Apply(create_session_with_token(
                          Store, claims.sub, encrypted_token,
                          <<claims.sub, claims.email>>, next_sid, now))
                /\ next_sid' = next_sid + 1
                /\ last_result' =
                       [tool |-> "createSessionFromToken",
                        keys |-> {"success", "session_id", "user_id",
                                  "email", "name", "created_at",
                                  "expires_at", "status"},
                        ok |-> TRUE, email |-> claims.email,
                        token |-> None, session_id |-> next_sid]
           ELSE /\ last_result' = failed
                /\ UNCHANGED <<store_vars, next_sid>>
        /\ UNCHANGED <<now, next_mid, task_vars, jwks_vars, file_vars, chat_user,
                       agent_vars>>

AuthNext ==
    \/ \E c \in Chats, flow \in AuthFlows : AuthenticateUser(c, flow)
    \/ \E c \in Chats : CompareToken(c)
    \/ \E tok \in Tokens : CreateSessionFromToken(tok, "iv1", FALSE)

AuthInit ==
    /\ StoreInit
    /\ next_mid = MaxMessages
    /\ TaskInit
    /\ FileInit
    /\ client_token_path \in BOOLEAN
    /\ ChatInit
    /\ AgentInit
    /\ JwksInit

SpecAuth == AuthInit /\ [][AuthNext]_vars

\* ------------------------------------------------------------ middleware
\* The identity provider rotates its keys.
RotateKeys(keys) ==
    /\ idp_keys' = keys
    /\ UNCHANGED <<store_vars, now, next_sid, next_mid, task_vars,
                   file_vars, chat_vars, agent_vars,
                   jwks_cache, jwks_cache_time>>

FetchJwks(force_refresh, reply) ==
    LET out == fetch_jwks(jwks_cache, jwks_cache_time, idp_keys, now,
                          force_refresh, reply)
    IN  /\ jwks_cache' = out.cache
        /\ jwks_cache_time' = out.cache_time
        /\ UNCHANGED <<store_vars, now, next_sid, next_mid, task_vars,
                       file_vars, chat_vars, agent_vars, idp_keys>>

\* validate_jwt called with its key set looked up.
ValidateJwt(token, r1, r2) ==
    LET out == validate_jwt_keys(jwks_cache, jwks_cache_time, idp_keys, now,
                                 token, r1, r2)
    IN  /\ jwks_cache' = out.cache
        /\ jwks_cache_time' = out.cache_time
        /\ UNCHANGED <<store_vars, now, next_sid, next_mid, task_vars,
                       file_vars, chat_vars, agent_vars, idp_keys>>

\* AuthMiddleware.authenticate
Authenticate(authorization_header, bearer_token, r1, r2) ==
    LET out == authenticate(Store, jwks_cache, jwks_cache_time, idp_keys,
                            now, authorization_header, bearer_token, r1, r2)
    IN  /\ Apply(out.store)
        /\ jwks_cache' = out.cache
        /\ jwks_cache_time' = out.cache_time
        /\ UNCHANGED <<now, next_sid, next_mid, task_vars,
                       file_vars, chat_vars, agent_vars, idp_keys>>

\* AuthMiddleware.validate_session
MwValidateSession(session_id) ==
    /\ Apply(validate_session(Store, session_id, now).store)
    /\ UNCHANGED <<now, next_sid, next_mid>>
    /\ UNCHANGED outside_store

\* The calls made of authenticate: a header alone, a token alone, and both.
AuthenticateCalls ==
    {<<h, None>> : h \in Headers}
        \cup {<<(<<>>), b>> : b \in MwTokens}
        \cup {<<(<<"Bearer", " ", "tok_bad">>), "tok_alice">>}

MwNext ==
    \/ Tick
    \/ \E u \in Users : CreateSession(u)
    \/ \E keys \in SUBSET Kids : RotateKeys(keys)
    \/ \E force_refresh \in BOOLEAN, reply \in Responses :
           FetchJwks(force_refresh, reply)
    \/ \E token \in MwTokens, r1, r2 \in Responses : ValidateJwt(token, r1, r2)
    \/ \E call \in AuthenticateCalls, r1, r2 \in Responses :
           Authenticate(call[1], call[2], r1, r2)
    \/ \E sid \in SessionIds \cup {NoSid} : MwValidateSession(sid)

\* Session ids are nearly used up, so that one more session is created.
MwInit ==
    /\ sessions = <<>> /\ user_sessions = <<>>
    /\ conversations = <<>> /\ caches = <<>>
    /\ now = 0 /\ next_sid = MaxSessions /\ next_mid = MaxMessages
    /\ TaskInit /\ FileInit /\ client_token_path = TRUE
    /\ ChatInit /\ AgentInit /\ JwksInit

SpecMw == MwInit /\ [][MwNext]_vars

\* ------------------------------------------------------- stored credentials
\* The getSessionInfo tool: it changes nothing.
GetSessionInfo(session_id, bearer_token) ==
    /\ get_session_info_impl(Store, session_id, bearer_token).success
           \in BOOLEAN
    /\ UNCHANGED vars

VaultNext ==
    \/ Tick
    \/ \E u \in Users : CreateSession(u)
    \/ \E tok \in Tokens, iv \in IVs, raised \in BOOLEAN :
           CreateSessionFromToken(tok, iv, raised)
    \/ \E sid \in SessionIds : InvalidateSession(sid)
    \/ \E sid \in SessionIds : AddMessage(sid)
    \/ \E sid \in SessionIds \cup {NoSid}, tok \in Tokens \cup {None} :
           GetSessionInfo(sid, tok)

SpecVault == Init /\ [][VaultNext]_vars

\* --------------------------------------------------------------- tools spec
\* The chatMemory tool.
ChatMemory(session_id, bearer_token, action, message_ok) ==
    /\ next_mid <= MaxMessages
    /\ Apply(chat_memory_impl(Store, session_id, bearer_token, action,
                              message_ok, next_mid, now))
    /\ next_mid' =
           IF chat_memory_impl_success(Store, session_id, bearer_token,
                                       action, message_ok)
                  /\ action = "append"
           THEN next_mid + 1 ELSE next_mid
    /\ UNCHANGED <<now, next_sid>>
    /\ UNCHANGED outside_store

\* The updateSessionState tool.
UpdateSessionState(session_id, bearer_token, state) ==
    /\ Apply(update_session_state_impl(Store, session_id, bearer_token, state))
    /\ UNCHANGED <<now, next_sid, next_mid>>
    /\ UNCHANGED outside_store

\* The getSessionState tool: it changes nothing.
GetSessionState(session_id, bearer_token) ==
    /\ get_session_state_impl(Store, session_id, bearer_token).success
           \in BOOLEAN
    /\ UNCHANGED vars

ToolsNext ==
    \/ Tick
    \/ \E u \in Users : CreateSession(u)
    \/ \E sid \in SessionIds : ValidateSession(sid, None)
    \/ \E sid \in SessionIds, action \in ChatActions, message_ok \in BOOLEAN :
           ChatMemory(sid, None, action, message_ok)
    \/ \E sid \in SessionIds, state \in StateValues :
           UpdateSessionState(sid, None, state)
    \/ \E sid \in SessionIds : GetSessionState(sid, None)
    \/ \E sid \in SessionIds : GetSessionInfo(sid, None)

SpecTools == CacheInit /\ [][ToolsNext]_vars

\* ------------------------------------------------------ Agent.handle_query
Call(tool, ok) == [tool |-> tool, ok |-> ok]

\* handle_query is entered: step 1 runs only while no email is held.
HandleQuery ==
    /\ agent_pc = "idle"
    /\ queries < MaxQueries
    /\ queries' = queries + 1
    /\ calls' = <<>>
    /\ intent' = None
    /\ response' = None
    /\ agent_pc' = IF authenticated_email = None THEN "authenticate"
                   ELSE after_authentication(user_validated)
    /\ UNCHANGED <<authenticated_email, user_validated>>
    /\ UNCHANGED <<store_vars, now, next_sid, next_mid, task_vars, jwks_vars,
                   file_vars, chat_vars>>

\* Step 1: the authenticate_user tool.
AgentAuthenticate(flow) ==
    LET out == authenticate_user_impl(server_token, client_token,
                                      client_token_path, flow)
    IN  /\ agent_pc = "authenticate"
        /\ server_token' = out.server_token
        /\ client_token' = out.client_token
        /\ last_result' = out.result
        /\ calls' = Append(calls, Call("authenticate_user", out.result.ok))
        /\ IF ~out.result.ok
           THEN /\ response' = "Authentication failed"
                /\ agent_pc' = "idle"
                /\ UNCHANGED authenticated_email
           ELSE /\ authenticated_email' = out.result.email
                /\ agent_pc' = after_authentication(user_validated)
                /\ UNCHANGED response
        /\ UNCHANGED <<user_validated, queries, intent>>
        /\ UNCHANGED <<store_vars, now, next_sid, next_mid, task_vars, jwks_vars,
                       client_token_path, session_files, chat_user>>

\* Step 2: the validate_email tool; a failure forgets the email.
AgentValidateEmail(valid) ==
    /\ agent_pc = "validate_email"
    /\ calls' = Append(calls, Call("validate_email", valid))
    /\ IF ~valid
       THEN /\ authenticated_email' = None
            /\ response' = "User validation failed"
            /\ agent_pc' = "idle"
            /\ UNCHANGED user_validated
       ELSE /\ user_validated' = TRUE
            /\ agent_pc' = "detect_intent"
            /\ UNCHANGED <<authenticated_email, response>>
    /\ UNCHANGED <<queries, intent>>
    /\ UNCHANGED <<store_vars, now, next_sid, next_mid, task_vars, jwks_vars,
                   file_vars, chat_vars>>

\* Step 3: IntentRouter.detect_intent, a local call that can raise.
AgentDetectIntent(i, raised) ==
    /\ agent_pc = "detect_intent"
    /\ IF raised
       THEN /\ response' = "raised"
            /\ agent_pc' = "idle"
            /\ UNCHANGED intent
       ELSE /\ intent' = i
            /\ agent_pc' = "check_authorization"
            /\ UNCHANGED response
    /\ UNCHANGED <<authenticated_email, user_validated, queries, calls>>
    /\ UNCHANGED <<store_vars, now, next_sid, next_mid, task_vars, jwks_vars,
                   file_vars, chat_vars>>

\* Step 4: the check_authorization tool.
AgentCheckAuthorization(cm_response) ==
    LET authorized == check_authorization_impl(cm_response, intent)
    IN  /\ agent_pc = "check_authorization"
        /\ calls' = Append(calls, Call("check_authorization", authorized))
        /\ agent_pc' = after_check_authorization(authorized)
        /\ response' = IF ~authorized THEN "Authorization denied" ELSE response
        /\ UNCHANGED <<authenticated_email, user_validated, queries, intent>>
        /\ UNCHANGED <<store_vars, now, next_sid, next_mid, task_vars, jwks_vars,
                       file_vars, chat_vars>>

\* Step 5: ActionPlanGenerator().run, kept in no variable: step 6 takes it.
AgentGenerateActionPlan ==
    /\ agent_pc = "generate_action_plan"
    /\ agent_pc' = "execute"
    /\ UNCHANGED <<authenticated_email, user_validated, queries, calls,
                   intent, response>>
    /\ UNCHANGED <<store_vars, now, next_sid, next_mid, task_vars, jwks_vars,
                   file_vars, chat_vars>>

\* Step 6: _execute_via_mcp on the plan of step 5.
AgentExecute(tool_ok) ==
    LET tool_name == execute_tool_name(ActionPlanGenerator_run(intent))
    IN  /\ agent_pc = "execute"
        /\ IF tool_name \in ExecutionTools
           THEN /\ calls' = Append(calls, Call(tool_name, tool_ok))
                /\ response' = IF tool_ok THEN "tool result" ELSE "raised"
           ELSE /\ response' = tool_name
                /\ UNCHANGED calls
        /\ agent_pc' = "idle"
        /\ UNCHANGED <<authenticated_email, user_validated, queries, intent>>
        /\ UNCHANGED <<store_vars, now, next_sid, next_mid, task_vars, jwks_vars,
                       file_vars, chat_vars>>

AgentNext ==
    \/ HandleQuery
    \/ \E flow \in AuthFlows : AgentAuthenticate(flow)
    \/ \E valid \in BOOLEAN : AgentValidateEmail(valid)
    \/ \E i \in Intents, raised \in BOOLEAN : AgentDetectIntent(i, raised)
    \/ \E cm_response \in CMResponses : AgentCheckAuthorization(cm_response)
    \/ AgentGenerateActionPlan
    \/ \E tool_ok \in BOOLEAN : AgentExecute(tool_ok)

SpecAgent == AuthInit /\ [][AgentNext]_vars

\* ===================================================== session lifecycle
\* At most one session of the table carries a given user_id.
OneSessionPerUser ==
    \A s1, s2 \in DOMAIN sessions :
        sessions[s1].user_id = sessions[s2].user_id => s1 = s2

\* A create_session step for user u: the user's index entry then resolves to
\* the new session, and the session the index named before is gone.
CreateReplaces ==
    \A u \in Users :
        CreateSession(u) =>
            /\ get_session_by_user_id(Store', u).session_id = next_sid
            /\ get_session_by_user_id(Store', u).user_id = u
            /\ GetSid(user_sessions, u) # NoSid =>
                   get_session(Store', GetSid(user_sessions, u)) = NoSession

\* C1: after any sequence of sequentially executed store operations at most
\* one session carries a given user_id; after create_session for a user,
\* get_session_by_user_id returns the new session and get_session on the
\* session it replaced returns None.
C1_OneSessionPerUser == []OneSessionPerUser /\ [][CreateReplaces]_vars

\* Three sessions were created for two users and two of them are live: one
\* user's session was replaced by a later create_session.
C1_Witness ==
    /\ next_sid > 3
    /\ Cardinality(DOMAIN sessions) = 2
    /\ Cardinality(DOMAIN user_sessions) = 2

Inputs == (SessionIds \cup {NoSid}) \X (Tokens \cup {None})

\* C3 as stated: every session of the store whose expires_at is in the past
\* fails validate_session_for_tool with 'Session has expired'.
C3_AnyStatusExpired ==
    \A i \in Inputs :
        LET session == ResolveSession(Store, i[1], i[2])
        IN  (session # NoSession /\ session.expires_at < now) =>
                validate_session_for_tool_error(Store, i[1], i[2], now)
                    = "Session has expired"

\* C3, amended: every session whose status is active and whose expires_at is
\* in the past fails validate_session_for_tool with 'Session has expired', and
\* get_session on its id then shows status expired.
C3_ActiveExpired ==
    \A i \in Inputs :
        LET session == ResolveSession(Store, i[1], i[2])
            after == validate_session_for_tool(Store, i[1], i[2], now)
        IN  (session # NoSession /\ session.status = "active"
                /\ session.expires_at < now) =>
                /\ validate_session_for_tool_error(Store, i[1], i[2], now)
                       = "Session has expired"
                /\ get_session(after, session.session_id).status = "expired"
                /\ get_session(after, session.session_id).user_id
                       = session.user_id

\* A session that outlived its expires_at untouched since its creation is in
\* the table with status expired.
C3_Witness ==
    \E sid \in DOMAIN sessions :
        /\ sessions[sid].status = "expired"
        /\ sessions[sid].expires_at < now
        /\ sessions[sid].last_activity = sessions[sid].created_at
        /\ GetSid(user_sessions, sessions[sid].user_id) = sid

\* C4: in every reachable state no session with status expired is resolvable
\* via get_session or get_session_by_user_id.
C4_NoExpiredResolvable ==
    /\ \A sid \in SessionIds : get_session(Store, sid).status # "expired"
    /\ \A u \in Users : get_session_by_user_id(Store, u).status # "expired"

\* C5: once a session's status is expired, no later step makes it active or
\* idle again.
ExpiredStays ==
    \A sid \in DOMAIN sessions :
        (sessions[sid].status = "expired" /\ sid \in DOMAIN sessions') =>
            sessions'[sid].status = "expired"

C5_ExpiredIsTerminal == [][ExpiredStays]_vars

\* ================================================================== agent
GatingTools == {"authenticate_user", "validate_email", "check_authorization"}

GateFailed ==
    \E i \in 1..Len(calls) : calls[i].tool \in GatingTools /\ ~calls[i].ok

\* C6: a failed gating step of handle_query is the last call of its query and
\* ends the query; the plan and execution steps are reached only with every
\* gate passed and check_authorization answered in this query.
C6_GatesShortCircuit ==
    /\ agent_pc \in {"generate_action_plan", "execute"} =>
           /\ ~GateFailed
           /\ \E i \in 1..Len(calls) :
                  calls[i].tool = "check_authorization" /\ calls[i].ok
    /\ GateFailed =>
           /\ agent_pc = "idle"
           /\ \A i \in 1..Len(calls) : ~calls[i].ok => i = Len(calls)
    /\ \A i \in 1..Len(calls) :
           calls[i].tool \in ExecutionTools =>
               /\ \A j \in 1..(i - 1) : calls[j].ok
               /\ \E j \in 1..(i - 1) : calls[j].tool = "check_authorization"

\* The second query of an agent that holds a validated email stands at its
\* execution step with check_authorization as its only tool call.
C6_Witness ==
    /\ agent_pc = "execute"
    /\ queries = 2
    /\ user_validated
    /\ calls = <<Call("check_authorization", TRUE)>>

\* C7: a query of an agent that already holds an authenticated email reaches
\* intent detection only after a successful validateSession call.
C7_RevalidatesBeforeIntent ==
    (/\ agent_pc = "detect_intent"
     /\ queries > 1
     /\ \A i \in 1..Len(calls) : calls[i].tool # "authenticate_user") =>
        \E i \in 1..Len(calls) :
            calls[i].tool = "validateSession" /\ calls[i].ok

\* ============================================================ token files
\* C8: compare_token answers tokens_match = true only when the stored token
\* belongs to the user who authenticated in the chat that asks.
C8_MatchOnlyForChatUser ==
    (last_result.tool = "compare_token" /\ last_result.ok) =>
        \A c \in Chats :
            chat_user[c] # None =>
                validate_id_token(server_token).email = chat_user[c]

\* C9: after authenticate_user returned authenticated = true, the dict carries
\* a session_id and the store holds an active session of that user.
C9_AuthenticatedHasSession ==
    (last_result.tool = "authenticate_user" /\ last_result.ok) =>
        /\ "session_id" \in last_result.keys
        /\ \E sid \in DOMAIN sessions :
               /\ sessions[sid].user_id
                      = validate_id_token(last_result.token).sub
               /\ sessions[sid].status = "active"

\* ========================================================== conversations
ConversationBounded ==
    \A sid \in DOMAIN conversations :
        Len(conversations[sid]) <= MAX_CONVERSATION_MESSAGES

\* Message ids are handed out in increasing order: insertion order is
\* increasing order.
InInsertionOrder ==
    \A sid \in DOMAIN conversations :
        \A i, j \in 1..Len(conversations[sid]) :
            i < j => conversations[sid][i] < conversations[sid][j]

AppendEvictsOldest ==
    \A sid \in DOMAIN conversations :
        AddMessage(sid) =>
            conversations'[sid] =
                IF Len(conversations[sid]) = MAX_CONVERSATION_MESSAGES
                THEN Append(Tail(conversations[sid]), next_mid)
                ELSE Append(conversations[sid], next_mid)

\* C10: a conversation never holds more than MAX_CONVERSATION_MESSAGES
\* messages, keeps them in insertion order, and an append to a full
\* conversation evicts the oldest message only.
C10_ConversationBounded ==
    /\ [](ConversationBounded /\ InInsertionOrder)
    /\ [][AppendEvictsOldest]_vars

\* N + 1 messages went to one session: the first is gone, the N newest stay.
C10_Witness ==
    \E sid \in DOMAIN conversations :
        /\ Len(conversations[sid]) = MAX_CONVERSATION_MESSAGES
        /\ conversations[sid][1] = 2
        /\ conversations[sid][MAX_CONVERSATION_MESSAGES]
               = MAX_CONVERSATION_MESSAGES + 1

\* The at most `limit` messages of s that end `offset` positions before its
\* tail.
Window(s, limit, offset) ==
    LET hi == IF Len(s) - offset < 0 THEN 0 ELSE Len(s) - offset
        lo == IF hi - limit < 0 THEN 0 ELSE hi - limit
    IN  [i \in 1..(hi - lo) |-> s[lo + i]]

\* C11: for every conversation and every limit >= 0 and offset >= 0,
\* get_conversation returns the window of at most `limit` messages ending
\* `offset` positions before the tail, and never more than `limit` messages.
C11_ConversationWindow ==
    \A sid \in DOMAIN conversations :
        \A limit \in 0..MaxLimit, offset \in 0..MaxLimit :
            /\ get_conversation(Store, sid, limit, offset)
                   = Window(conversations[sid], limit, offset)
            /\ Len(get_conversation(Store, sid, limit, offset)) <= limit

\* C12: invalidate_session on a session of the table returns True and leaves
\* it unresolvable by id and by user, its index entry, conversation and cache
\* removed; on a session that is gone it returns False and changes nothing;
\* a second invalidation changes nothing more.
C12_InvalidateIdempotent ==
    \A sid \in SessionIds :
        LET after == invalidate_session(Store, sid)
        IN  /\ sid \in DOMAIN sessions =>
                   /\ invalidate_session_result(Store, sid)
                   /\ get_session(after, sid) = NoSession
                   /\ get_session_by_user_id(after, sessions[sid].user_id)
                          = NoSession
                   /\ sessions[sid].user_id \notin DOMAIN after.user_sessions
                   /\ sid \notin DOMAIN after.conversations
                   /\ sid \notin DOMAIN after.caches
            /\ sid \notin DOMAIN sessions =>
                   /\ ~invalidate_session_result(Store, sid)
                   /\ after = Store
            /\ ~invalidate_session_result(after, sid)
            /\ invalidate_session(after, sid) = after

\* The one session ever created is gone with everything it owned.
C12_Witness ==
    /\ next_sid = 2
    /\ DOMAIN sessions = {}
    /\ DOMAIN user_sessions = {}
    /\ DOMAIN conversations = {}
    /\ DOMAIN caches = {}

\* The cache holds a key set fetched less than the cache duration ago.
CacheFresh ==
    jwks_cache_time # NoTime /\ now - jwks_cache_time < JWKS_CACHE_DURATION

\* C13: AuthMiddleware.authenticate never raises: whatever the header, the
\* token and the identity provider's replies, it returns a result, with
\* authenticated true only for a token that validates and names a subject,
\* authenticated true for every such token whose key can be obtained, and
\* an error whenever authenticated is false.
C13_AuthenticateNeverRaises ==
    \A authorization_header \in Headers, bearer_token \in MwTokens \cup {None},
       r1, r2 \in Responses :
        LET out == authenticate(Store, jwks_cache, jwks_cache_time, idp_keys,
                                now, authorization_header, bearer_token,
                                r1, r2)
            chosen == token_to_validate(authorization_header, bearer_token)
            key == find_signing_key(jwks_cache, jwks_cache_time, idp_keys,
                                    now, chosen.token, r1, r2)
        IN  /\ ~out.raised
            /\ out.authenticated =>
                   /\ chosen.token \in {"tok_alice", "tok_bob"}
                   /\ out.user_id = validate_jwt(chosen.token).sub
            /\ chosen.token \in {"tok_alice", "tok_bob"} /\ key.found
                   => out.authenticated
            /\ ~out.authenticated =>
                   out.error # None /\ out.status_code \in {401, 500}

\* A valid token is presented while the provider's reply cannot be read and
\* the cache is empty or stale; another time the session of the token's
\* user has been touched by authenticate.
C13_Witness ==
    /\ ~CacheFresh
    /\ \E sid \in DOMAIN sessions :
           /\ sessions[sid].user_id = "alice"
           /\ sessions[sid].last_activity > sessions[sid].created_at
    /\ ~authenticate(Store, jwks_cache, jwks_cache_time, idp_keys, now,
                     <<"Bearer", " ", "tok_alice">>, None, "garbled",
                     "up").authenticated

\* C14: _find_signing_key searches the key set fetch_jwks() returns first
\* (the cached one while it is fresh); it forces a refresh only when the
\* key id is not in it, at most once, and searches once more; a key id
\* still absent ends in "No matching key found" with no further GET.
C14_OneForcedRefresh ==
    \A token \in MwTokens, r1, r2 \in Responses :
        LET out == find_signing_key(jwks_cache, jwks_cache_time, idp_keys,
                                    now, token, r1, r2)
            first == fetch_jwks(jwks_cache, jwks_cache_time, idp_keys, now,
                                FALSE, r1)
            kid == token_kid(token)
        IN  /\ out.forced <= 1
            /\ out.forced = 1 <=>
                   kid # None /\ first.error = NoError /\ kid \notin first.jwks
            /\ CacheFresh /\ kid \in jwks_cache =>
                   out.found /\ out.requests = 0 /\ out.forced = 0
            /\ out.forced = 1 =>
                   /\ out.requests = first.requests + 1
                   /\ r2 = "up" => (out.found <=> kid \in idp_keys)
                   /\ r2 = "up" /\ kid \notin idp_keys =>
                          out.error.message = "No matching key found"
            /\ out.forced = 0 =>
                   out.requests = IF kid = None THEN 0 ELSE first.requests

\* The provider has rotated its keys since the fresh cache was filled: the
\* key of bob's token is found only by the forced refresh.
C14_Witness ==
    /\ CacheFresh
    /\ "kid2" \notin jwks_cache
    /\ "kid2" \in idp_keys
    /\ find_signing_key(jwks_cache, jwks_cache_time, idp_keys, now,
                        "tok_bob", "up", "up").forced = 1
    /\ find_signing_key(jwks_cache, jwks_cache_time, idp_keys, now,
                        "tok_alice", "up", "up").error.message
           = "No matching key found"

\* C15: fetch_jwks(force_refresh=False) returns the cached key set and
\* sends no GET while the cache is fresh, and sends one otherwise;
\* fetch_jwks(force_refresh=True) always sends one and, when it is
\* answered, replaces the cached set and its timestamp.
C15_FetchJwksCaching ==
    \A reply \in Responses :
        LET lazy == fetch_jwks(jwks_cache, jwks_cache_time, idp_keys, now,
                               FALSE, reply)
            forced == fetch_jwks(jwks_cache, jwks_cache_time, idp_keys, now,
                                 TRUE, reply)
        IN  /\ CacheFresh =>
                   /\ lazy.requests = 0 /\ lazy.error = NoError
                   /\ lazy.jwks = jwks_cache
                   /\ lazy.cache = jwks_cache
                   /\ lazy.cache_time = jwks_cache_time
            /\ ~CacheFresh => lazy.requests = 1
            /\ forced.requests = 1
            /\ \A out \in {lazy, forced} :
                   out.requests = 1 /\ reply = "up" =>
                       /\ out.jwks = idp_keys /\ out.cache = idp_keys
                       /\ out.cache_time = now /\ out.error = NoError

\* The cache is fresh, was not filled at this instant and no longer holds
\* what the provider serves.
C15_Witness ==
    /\ CacheFresh
    /\ jwks_cache_time < now
    /\ jwks_cache # idp_keys

\* The last tool call handle_query made.
LastCall == calls[Len(calls)]

\* C16: whenever the Location lookup returns a user, check_authorization
\* with an intent that upper-cases to HELP answers authorized, whatever the
\* user type, listed in AUTHORIZATION_MAP or not; and handle_query, about to
\* check such an intent, goes on to the action plan.
C16_HelpAlwaysAuthorized ==
    /\ \A user_type \in UserTypes, i \in Intents :
           Upper(i) = "HELP" => check_authorization_impl(user_type, i)
    /\ agent_pc = "check_authorization" /\ Upper(intent) = "HELP" =>
           \A user_type \in UserTypes :
               after_check_authorization(
                   check_authorization_impl(user_type, intent))
                   = "generate_action_plan"

\* handle_query has had a lower-case help authorized and is at step 5.
C16_Witness ==
    /\ agent_pc = "generate_action_plan"
    /\ intent = "help"
    /\ calls # <<>>
    /\ LastCall = Call("check_authorization", TRUE)

\* The allow-lists as the specification states them.
StatedAllowList(role) ==
    CASE role = "Inquiry User" -> {"SEARCH"}
      [] role = "Contributor" -> {"SEARCH", "CREATE"}
      [] role \in {"Administrator", "Records Manager", "Records Co-ordinator",
                   "Knowledge Worker"} -> {"SEARCH", "CREATE", "UPDATE"}
      [] OTHER -> {}

\* C17: for every user type and every intent that does not upper-case to
\* HELP, check_authorization answers authorized exactly when the upper-cased
\* intent is in the stated allow-list of the user type; a user type that is
\* not listed is denied every such intent.
C17_DecisionIsAllowList ==
    \A user_type \in UserTypes, i \in Intents :
        Upper(i) # "HELP" =>
            /\ check_authorization_impl(user_type, i)
                   <=> Upper(i) \in StatedAllowList(user_type)
            /\ user_type = "Unknown" =>
                   ~check_authorization_impl(user_type, i)
            /\ agent_pc = "check_authorization" /\ intent = i =>
                   (after_check_authorization(
                        check_authorization_impl(user_type, i))
                        = "generate_action_plan"
                    <=> Upper(i) \in StatedAllowList(user_type))

\* handle_query has had an UPDATE denied on its second query, whose only
\* tool call was the check.
C17_Witness ==
    /\ queries = 2
    /\ intent = "UPDATE"
    /\ agent_pc = "idle"
    /\ response = "Authorization denied"
    /\ calls = <<Call("check_authorization", FALSE)>>

\* The texts of the bearer tokens.
TokenTexts == {TokenText(token) : token \in Tokens}

\* C18: no session holds an unencrypted bearer token in its bearer_token
\* field, whether or not the encryption raised.
C18_NoPlaintextStored ==
    \A sid \in DOMAIN sessions : sessions[sid].bearer_token \notin TokenTexts

\* The plaintexts: the words of length up to MaxLen over two letters, the
\* bearer tokens, and a text that is itself a Fernet token.
Plaintexts ==
    UNION {[1..n -> {"a", "b"}] : n \in 0..MaxLen}
        \cup TokenTexts
        \cup {encrypt_token(secret, <<"a">>, "iv1", FALSE) : secret \in Secrets}

\* C19: under one secret, decrypt_token gives back the plaintext that
\* encrypt_token encrypted, whatever the plaintext and the initialization
\* vector, and the ciphertext is not the plaintext; the bearer_token of a
\* session decrypts to the token the session was created from.
C19_DecryptInvertsEncrypt ==
    /\ \A secret \in Secrets, p \in Plaintexts, iv \in IVs :
           /\ decrypt_token(secret, encrypt_token(secret, p, iv, FALSE)) = p
           /\ encrypt_token(secret, p, iv, FALSE) # p
    /\ \A sid \in DOMAIN sessions :
           sessions[sid].bearer_token # NoToken =>
               /\ decrypt_token(TOKEN_ENCRYPTION_SECRET,
                                sessions[sid].bearer_token) \in TokenTexts
               /\ validate_jwt(decrypt_token(TOKEN_ENCRYPTION_SECRET,
                                   sessions[sid].bearer_token)[1]).sub
                      = sessions[sid].user_id

\* Two sessions hold the ciphertexts of their tokens, made with different
\* initialization vectors.
C19_Witness ==
    \E sid1, sid2 \in DOMAIN sessions :
        /\ Len(sessions[sid1].bearer_token) > 1
        /\ Len(sessions[sid2].bearer_token) > 1
        /\ sessions[sid1].bearer_token[3] = "iv1"
        /\ sessions[sid2].bearer_token[3] = "iv2"

\* C20: for every session of the store, what get_session_info returns as the
\* session has every field of it but bearer_token, and neither it nor the
\* summary of the getSessionInfo tool holds the stored bearer_token or the
\* token it decrypts to.
C20_SessionInfoHidesCredential ==
    \A sid \in DOMAIN sessions :
        LET session_info == get_session_info(Store, sid)
            summary == get_session_info_impl(Store, sid, None)
            stored == sessions[sid].bearer_token
        IN  /\ session_info.found /\ summary.success
            /\ DOMAIN session_info.session
                   = DOMAIN sessions[sid] \ {"bearer_token"}
            /\ "bearer_token" \notin DOMAIN summary
            /\ \A tok \in Tokens :
                   get_session_info_impl(Store, NoSid, tok).success =>
                       "bearer_token" \notin
                           DOMAIN get_session_info_impl(Store, NoSid, tok)
            /\ stored # NoToken =>
                   /\ session_info.session.metadata # stored
                   /\ summary.metadata # stored
                   /\ summary.metadata
                          # decrypt_token(TOKEN_ENCRYPTION_SECRET, stored)

\* One session holds a ciphertext and another, whose encryption raised, the
\* token itself; the first has a message in its conversation.
C20_Witness ==
    \E sid1, sid2 \in DOMAIN sessions :
        /\ Len(sessions[sid1].bearer_token) > 1
        /\ sessions[sid2].bearer_token \in TokenTexts
        /\ get_session_info(Store, sid1).conversation_count = 1

\* C21: validate_session_for_tool resolves the session by session_id when
\* one is given, and by the bearer token's subject only when none is: a
\* session_id that matches no session gives "Session not found" whatever
\* token comes with it, a session_id that matches one gives what it gives
\* without a token, a token alone resolves the session of its subject, and
\* a call with neither fails; a failed resolution changes nothing.
C21_ResolutionOrder ==
    /\ \A session_id \in SessionIds, bearer_token \in Tokens \cup {None} :
           IF session_id \notin DOMAIN sessions
           THEN /\ validate_session_for_tool_error(
                       Store, session_id, bearer_token, now)
                       = "Session not found"
                /\ validate_session_for_tool(
                       Store, session_id, bearer_token, now) = Store
           ELSE /\ ResolveSession(Store, session_id, bearer_token)
                       = sessions[session_id]
                /\ validate_session_for_tool_error(
                       Store, session_id, bearer_token, now)
                       = validate_session_for_tool_error(
                             Store, session_id, None, now)
                /\ validate_session_for_tool(
                       Store, session_id, bearer_token, now)
                       = validate_session_for_tool(
                             Store, session_id, None, now)
    /\ \A u \in Users :
           LET bearer_token == IF u = "alice" THEN "tok_alice" ELSE "tok_bob"
           IN  IF u \in DOMAIN user_sessions
               THEN ResolveSession(Store, NoSid, bearer_token)
                        = sessions[user_sessions[u]]
               ELSE validate_session_for_tool_error(
                        Store, NoSid, bearer_token, now)
                        = "No session found for this token"
    /\ validate_session_for_tool_error(Store, NoSid, None, now)
           = "No session_id or bearer_token provided"
    /\ validate_session_for_tool(Store, NoSid, None, now) = Store

\* alice holds an active, unexpired session, and a session id handed out
\* earlier matches no session any more.
C21_Witness ==
    /\ "alice" \in DOMAIN user_sessions
    /\ validate_session_for_tool_error(Store, NoSid, "tok_alice", now) = "valid"
    /\ \E session_id \in SessionIds :
           /\ session_id < next_sid
           /\ session_id \notin DOMAIN sessions
           /\ validate_session_for_tool_error(
                  Store, session_id, "tok_alice", now) = "Session not found"

\* The bearer token of a user.
TokenOf(u) == IF u = "alice" THEN "tok_alice" ELSE "tok_bob"

\* C22: validate_session_for_tool (require_active left True) on a session
\* whose status is not active answers "Session is not active" and leaves the
\* store as it was, whether the session is resolved by id or by token and
\* whether or not its expires_at has passed.
C22_InactiveRejectedUnchanged ==
    \A session_id \in DOMAIN sessions :
        sessions[session_id].status # "active" =>
            /\ \A bearer_token \in Tokens \cup {None} :
                   /\ validate_session_for_tool_error(
                          Store, session_id, bearer_token, now)
                          = "Session is not active"
                   /\ validate_session_for_tool(
                          Store, session_id, bearer_token, now) = Store
            /\ LET user_id == sessions[session_id].user_id
               IN  GetSid(user_sessions, user_id) = session_id =>
                       /\ validate_session_for_tool_error(
                              Store, NoSid, TokenOf(user_id), now)
                              = "Session is not active"
                       /\ validate_session_for_tool(
                              Store, NoSid, TokenOf(user_id), now) = Store

\* An idle session whose expires_at has passed and whose last activity is
\* in the past, and a session marked expired.
C22_Witness ==
    \E sid1, sid2 \in DOMAIN sessions :
        /\ sessions[sid1].status = "idle"
        /\ sessions[sid1].expires_at < now
        /\ sessions[sid1].last_activity < now
        /\ sessions[sid2].status = "expired"

\* C23: a validate_session_for_tool that answers valid sets the last_activity
\* of the session it resolved to the current time and changes nothing else
\* in the store, and the session_id and user_id it returns are those of that
\* session.
C23_SuccessTouchesOnly ==
    \A session_id \in SessionIds \cup {NoSid}, bearer_token \in Tokens \cup {None} :
        validate_session_for_tool_error(Store, session_id, bearer_token, now)
            = "valid" =>
            LET session == ResolveSession(Store, session_id, bearer_token)
                sid == session.session_id
                identity == validate_session_for_tool_identity(
                                Store, session_id, bearer_token)
            IN  /\ sid \in DOMAIN sessions
                /\ session_id # NoSid => sid = session_id
                /\ session_id = NoSid =>
                       /\ session.user_id = validate_jwt(bearer_token).sub
                       /\ user_sessions[session.user_id] = sid
                /\ validate_session_for_tool(
                       Store, session_id, bearer_token, now)
                       = [Store EXCEPT !.sessions[sid].last_activity = now]
                /\ identity.session_id = sid
                /\ identity.user_id = sessions[sid].user_id

\* A valid session that was last active before now, holding a message, next
\* to a session of the other user.
C23_Witness ==
    \E sid1, sid2 \in DOMAIN sessions :
        /\ sid1 # sid2
        /\ sessions[sid1].last_activity < now
        /\ conversations[sid1] # <<>>
        /\ validate_session_for_tool_error(Store, sid1, None, now) = "valid"
        /\ validate_session_for_tool(Store, NoSid,
               TokenOf(sessions[sid1].user_id), now) # Store

\* C24: activity never makes an idle session active: update_last_activity,
\* add_message, validate_session_for_tool and AuthMiddleware.authenticate
\* leave the status of an idle session idle; update_last_activity sets
\* last_activity and nothing else, and on a session id that is not in the
\* table it returns False and changes nothing.
C24_IdleNotPromoted ==
    /\ \A sid \in SessionIds :
           IF sid \in DOMAIN sessions
           THEN /\ update_last_activity_result(Store, sid)
                /\ update_last_activity(Store, sid, now)
                       = [Store EXCEPT !.sessions[sid].last_activity = now]
           ELSE /\ ~update_last_activity_result(Store, sid)
                /\ update_last_activity(Store, sid, now) = Store
    /\ \A sid \in DOMAIN sessions :
           sessions[sid].status = "idle" =>
               /\ update_last_activity(Store, sid, now).sessions[sid].status
                      = "idle"
               /\ add_message(Store, sid, next_mid, now).sessions[sid].status
                      = "idle"
               /\ \A session_id \in SessionIds \cup {NoSid},
                     bearer_token \in Tokens \cup {None} :
                      validate_session_for_tool(Store, session_id,
                          bearer_token, now).sessions[sid].status = "idle"
               /\ \A authorization_header \in Headers,
                     bearer_token \in {None, TokenOf(sessions[sid].user_id)},
                     r1 \in Responses :
                      authenticate(Store, jwks_cache, jwks_cache_time,
                          idp_keys, now, authorization_header, bearer_token,
                          r1, "up").store.sessions[sid].status = "idle"

\* An idle session that has had activity since: its last_activity is now and
\* it holds a message, and authenticate with its user's token touches it.
C24_Witness ==
    \E sid \in DOMAIN sessions :
        /\ sessions[sid].status = "idle"
        /\ sessions[sid].created_at < sessions[sid].last_activity
        /\ sessions[sid].last_activity < now
        /\ conversations[sid] # <<>>
        /\ authenticate(Store, jwks_cache, jwks_cache_time, idp_keys, now,
               <<>>, TokenOf(sessions[sid].user_id), "up",
               "up").store.sessions[sid].last_activity = now

\* The times a session was created with.
Lifetime(session) ==
    [created_at |-> session.created_at, expires_at |-> session.expires_at]

\* C25: every session has expires_at = created_at + SESSION_TIMEOUT_MINUTES;
\* create_session makes it so, with status active, last_activity equal to
\* created_at, an empty conversation and an empty cache; and
\* update_last_activity, add_message, validate_session_for_tool,
\* update_session_status and check_idle_sessions change neither created_at
\* nor expires_at of any session.
C25_LifetimeFixedAtCreation ==
    /\ \A sid \in DOMAIN sessions :
           sessions[sid].expires_at
               = sessions[sid].created_at + SESSION_TIMEOUT_MINUTES
    /\ \A u \in Users :
           LET after == create_session(Store, u, next_sid, now)
               session == after.sessions[next_sid]
           IN  /\ session.created_at = now
               /\ session.expires_at = now + SESSION_TIMEOUT_MINUTES
               /\ session.last_activity = now
               /\ session.status = "active"
               /\ after.conversations[next_sid] = <<>>
               /\ after.caches[next_sid].last_messages = <<>>
    /\ \A sid \in DOMAIN sessions, target \in SessionIds :
           LET same(after) ==
                   /\ sid \in DOMAIN after.sessions
                   /\ Lifetime(after.sessions[sid]) = Lifetime(sessions[sid])
           IN  /\ same(update_last_activity(Store, target, now))
               /\ same(add_message(Store, target, next_mid, now))
               /\ same(check_idle_sessions(Store, now))
               /\ \A status \in Statuses :
                      same(update_session_status(Store, target, status))
               /\ \A bearer_token \in Tokens \cup {None} :
                      /\ same(validate_session_for_tool(
                                  Store, target, bearer_token, now))
                      /\ same(validate_session_for_tool(
                                  Store, NoSid, bearer_token, now))

\* A session past its expires_at that has had activity after it expired and
\* a change of status.
C25_Witness ==
    \E sid \in DOMAIN sessions :
        /\ sessions[sid].expires_at < sessions[sid].last_activity
        /\ sessions[sid].status = "idle"
        /\ conversations[sid] # <<>>

\* C26: check_idle_sessions sets to idle exactly the sessions that are
\* active and whose last_activity is more than IDLE_TIMEOUT_MINUTES old,
\* returns exactly their ids, changes nothing else of them and nothing of
\* any other session, index entry, conversation or cache.
C26_MarksExactlyIdle ==
    LET after == check_idle_sessions(Store, now)
        marked_idle == check_idle_sessions_result(Store, now)
    IN  /\ marked_idle =
               {sid \in DOMAIN sessions :
                   /\ sessions[sid].status = "active"
                   /\ now - sessions[sid].last_activity > IDLE_TIMEOUT_MINUTES}
        /\ DOMAIN after.sessions = DOMAIN sessions
        /\ \A sid \in DOMAIN sessions :
               after.sessions[sid] =
                   IF sid \in marked_idle
                   THEN [sessions[sid] EXCEPT !.status = "idle"]
                   ELSE sessions[sid]
        /\ after.user_sessions = user_sessions
        /\ after.conversations = conversations
        /\ after.caches = caches

\* One session is due, and the other, as long without activity, is marked
\* expired and stays so.
C26_Witness ==
    \E sid1, sid2 \in DOMAIN sessions :
        /\ check_idle_sessions_result(Store, now) = {sid1}
        /\ sessions[sid2].status = "expired"
        /\ now - sessions[sid2].last_activity > IDLE_TIMEOUT_MINUTES
        /\ check_idle_sessions(Store, now).sessions[sid1].status = "idle"

\* C27: cleanup_expired_sessions invalidates exactly the sessions whose
\* expires_at is before now, of any status, and returns exactly their ids:
\* afterwards none of them is found by get_session or by
\* get_session_by_user_id, their conversations and caches are gone, and
\* every other session, with its index entry, conversation and cache, is as
\* it was.
C27_ReapsExactlyExpired ==
    LET after == cleanup_expired_sessions(Store, now)
        removed == cleanup_expired_sessions_result(Store, now)
    IN  /\ removed = {sid \in DOMAIN sessions : sessions[sid].expires_at < now}
        /\ DOMAIN after.sessions = DOMAIN sessions \ removed
        /\ DOMAIN after.conversations = DOMAIN conversations \ removed
        /\ DOMAIN after.caches = DOMAIN caches \ removed
        /\ \A sid \in removed : get_session(after, sid) = NoSession
        /\ \A u \in Users :
               LET session == get_session_by_user_id(after, u)
               IN  /\ session # NoSession => session.expires_at >= now
                   /\ GetSid(user_sessions, u) \notin removed =>
                          session = get_session_by_user_id(Store, u)
        /\ \A sid \in DOMAIN sessions \ removed :
               /\ after.sessions[sid] = sessions[sid]
               /\ after.conversations[sid] = conversations[sid]
               /\ after.caches[sid] = caches[sid]

\* An idle session past its expiry next to an unexpired one that holds a
\* message.
C27_Witness ==
    \E sid1, sid2 \in DOMAIN sessions :
        /\ sessions[sid1].expires_at < now
        /\ sessions[sid1].status = "idle"
        /\ sessions[sid2].expires_at >= now
        /\ conversations[sid2] # <<>>
        /\ cleanup_expired_sessions_result(Store, now) = {sid1}

\* What an operation leaves of the store: conversations and caches exactly for
\* the sessions of the table.
Aligned(st) ==
    /\ DOMAIN st.conversations = DOMAIN st.sessions
    /\ DOMAIN st.caches = DOMAIN st.sessions

SameIds(st) == Aligned(st) /\ DOMAIN st.sessions = DOMAIN sessions

\* C28: in every reachable state the session ids that have a conversation and
\* those that have a cache are the ids of the session table; create_session
\* adds the three entries together, invalidate_session (and the cleanup and
\* the logout that call it) removes them together, and every other operation
\* of the store leaves the three sets of ids as they were.
C28_ConversationAndCachePerSession ==
    /\ Aligned(Store)
    /\ \A u \in Users :
           LET after == create_session(Store, u, next_sid, now)
           IN  /\ Aligned(after)
               /\ next_sid \in DOMAIN after.sessions
    /\ \A sid \in SessionIds :
           /\ LET after == invalidate_session(Store, sid)
              IN  /\ Aligned(after)
                  /\ DOMAIN after.sessions = DOMAIN sessions \ {sid}
           /\ SameIds(add_message(Store, sid, next_mid, now))
           /\ SameIds(clear_conversation(Store, sid))
           /\ SameIds(update_last_activity(Store, sid, now))
           /\ \A status \in Statuses :
                  SameIds(update_session_status(Store, sid, status))
           /\ \A data \in CacheData : SameIds(update_cache(Store, sid, data))
           /\ \A state \in StateValues :
                  SameIds(update_state(Store, sid, state))
           /\ \A preferences \in Preferences :
                  SameIds(update_user_preferences(Store, sid, preferences))
    /\ \A t \in 0..MaxTime :
           /\ SameIds(check_idle_sessions(Store, t))
           /\ LET after == cleanup_expired_sessions(Store, t)
              IN  /\ Aligned(after)
                  /\ DOMAIN after.sessions =
                         DOMAIN sessions \ ExpiredDue(Store, t)
           /\ \A sid \in SessionIds \cup {NoSid}, tok \in Tokens \cup {None} :
                  SameIds(validate_session_for_tool(Store, sid, tok, t))
    /\ \A sid \in SessionIds \cup {NoSid}, tok \in Tokens \cup {None} :
           /\ SameIds(clear_session_impl(Store, sid, tok, TRUE))
           /\ Aligned(clear_session_impl(Store, sid, tok, FALSE))

\* One session was invalidated and is gone from all three tables; another
\* has a message in its conversation and a changed cache.
C28_Witness ==
    \E a \in SessionIds, b \in SessionIds :
        /\ a \in DOMAIN sessions
        /\ Len(conversations[a]) > 0
        /\ caches[a].state # NoDict
        /\ b < next_sid
        /\ b >= MaxSessions - 1
        /\ b \notin DOMAIN sessions
        /\ b \notin DOMAIN conversations \cup DOMAIN caches

Min(a, b) == IF a < b THEN a ELSE b

\* C29: in every reachable state the last_messages of a session's cache are
\* the last min(10, L) messages of its conversation of length L, in the same
\* order, whatever operations ran, update_cache included.
C29_LastMessagesMirror ==
    \A sid \in DOMAIN caches :
        /\ sid \in DOMAIN conversations
        /\ caches[sid].last_messages =
               LastN(conversations[sid],
                     Min(CACHE_LAST_MESSAGES, Len(conversations[sid])))

\* C30: clear_conversation on an existing session returns true, empties its
\* conversation and resets last_messages and conversation_summary of its
\* cache, and changes nothing else: the session table and the user index are
\* as before (the session is found with the same status), user_preferences
\* and state of the cache are kept, other sessions' conversations and caches
\* are untouched.  On an unknown session it returns false and changes
\* nothing.  The clearSession tool with clear_conversation_only does exactly
\* this to the session it finds.
C30_ClearConversationFrame ==
    /\ \A sid \in SessionIds :
           LET after == clear_conversation(Store, sid)
           IN  IF sid \in DOMAIN sessions
               THEN /\ clear_conversation_result(Store, sid)
                    /\ after.conversations[sid] = <<>>
                    /\ after.caches[sid].last_messages = <<>>
                    /\ after.caches[sid].conversation_summary = NoSummary
                    /\ after.caches[sid].user_preferences =
                           caches[sid].user_preferences
                    /\ after.caches[sid].state = caches[sid].state
                    /\ after.caches[sid].session_id = caches[sid].session_id
                    /\ DOMAIN after.caches[sid] = DOMAIN caches[sid]
                    /\ after.sessions = sessions
                    /\ after.user_sessions = user_sessions
                    /\ get_session(after, sid) = sessions[sid]
                    /\ DOMAIN after.conversations = DOMAIN conversations
                    /\ DOMAIN after.caches = DOMAIN caches
                    /\ \A other \in DOMAIN sessions \ {sid} :
                           /\ after.conversations[other] = conversations[other]
                           /\ after.caches[other] = caches[other]
               ELSE /\ ~clear_conversation_result(Store, sid)
                    /\ after = Store
    /\ \A sid \in SessionIds \cup {NoSid}, tok \in Tokens \cup {None} :
           LET session == clear_session_find(Store, sid, tok)
           IN  clear_session_impl(Store, sid, tok, TRUE) =
                   IF session = NoSession THEN Store
                   ELSE clear_conversation(Store, session.session_id)

\* Both message ids were drawn, one for each of two sessions that are both
\* still there, and one of the two conversations is empty again: it was
\* cleared, and its cache kept its preferences and its state.
C30_Witness ==
    \E a \in DOMAIN sessions, b \in DOMAIN sessions :
        /\ a # b
        /\ DOMAIN sessions = (MaxSessions - 1)..MaxSessions
        /\ next_mid = MaxMessages + 1
        /\ Len(conversations[b]) = 1
        /\ conversations[a] = <<>>
        /\ caches[a].last_messages = <<>>
        /\ caches[a].conversation_summary = NoSummary
        /\ caches[a].user_preferences # NoDict
        /\ caches[a].state # NoDict
        /\ sessions[a].status = "active"

\* C31: update_state replaces the state: on a session that exists it returns
\* true and get_state then returns exactly the value given, whatever the
\* state was before, and after two calls in a row only the second value is
\* there; on a session that does not exist it returns false, changes nothing
\* and get_state returns None.
C31_StateIsReplaced ==
    \A sid \in SessionIds, v \in StateValues :
        LET after == update_state(Store, sid, v)
        IN  IF sid \in DOMAIN sessions
            THEN /\ update_state_result(Store, sid)
                 /\ get_state(after, sid) = [found |-> TRUE, state |-> v]
                 /\ DOMAIN get_state(after, sid).state = DOMAIN v
                 /\ \A w \in StateValues :
                        /\ update_state_result(after, sid)
                        /\ get_state(update_state(after, sid, w), sid) =
                               [found |-> TRUE, state |-> w]
            ELSE /\ ~update_state_result(Store, sid)
                 /\ after = Store
                 /\ ~get_state(after, sid).found

\* A session whose state was set and then set again to a value with another
\* key: only the second key is there.
C31_Witness ==
    \E sid \in DOMAIN sessions, other \in SessionIds :
        /\ caches[sid].state = [mode |-> 2]
        /\ "step" \notin DOMAIN caches[sid].state
        /\ caches[sid].user_preferences # NoDict
        /\ other \notin DOMAIN sessions

\* The longest header text the extraction is checked on.
MaxHeaderLen == 5

HeaderPieces == Whitespace \cup {"Bearer", "BEARER", "Basic", "tok_alice"}

HeaderTexts == UNION {[1..n -> HeaderPieces] : n \in 0..MaxHeaderLen}

\* Where the whitespace-separated parts of a text begin and end.
PartStarts(text) ==
    {i \in 1..Len(text) :
        /\ text[i] \notin Whitespace
        /\ i = 1 \/ text[i - 1] \in Whitespace}

PartEnds(text) ==
    {i \in 1..Len(text) :
        /\ text[i] \notin Whitespace
        /\ i = Len(text) \/ text[i + 1] \in Whitespace}

Least(S) == CHOOSE i \in S : \A j \in S : i <= j

Greatest(S) == CHOOSE i \in S : \A j \in S : j <= i

\* A text of exactly two parts, the first one a spelling of "bearer".
IsBearerHeader(text) ==
    /\ Cardinality(PartStarts(text)) = 2
    /\ Least(PartStarts(text)) = Least(PartEnds(text))
    /\ text[Least(PartStarts(text))] \in {"bearer", "Bearer", "BEARER"}

\* The cases of extract_bearer_token on every header text of the bound.
ExtractBearerTokenCases ==
    \A text \in HeaderTexts \cup Headers :
        LET out == extract_bearer_token(text)
            message == IF out.error = NoError THEN None ELSE out.error.message
        IN  /\ (out.error = NoError) = (out.token # None)
            /\ out.error = NoError <=> IsBearerHeader(text)
            /\ IsBearerHeader(text) =>
                   out.token = Join(SubSeq(text, Greatest(PartStarts(text)),
                                           Greatest(PartEnds(text))))
            /\ text = <<>> <=> message = "Authorization header missing"
            /\ (text # <<>> /\ Cardinality(PartStarts(text)) # 2)
                   <=> message = "Invalid Authorization header format"
            /\ (Cardinality(PartStarts(text)) = 2 /\ ~IsBearerHeader(text))
                   <=> message = "Authorization type must be Bearer"

\* C32: extract_bearer_token returns the second part of exactly the headers
\* made of two whitespace-separated parts whose first is "bearer" in any
\* case; an empty header fails with "Authorization header missing", a header
\* whose number of parts is not two with "Invalid Authorization header
\* format", a header of two parts whose first is not "bearer" with
\* "Authorization type must be Bearer".  AuthMiddleware.authenticate, given
\* a header and no bearer_token, reports that failure with status 401 and
\* touches no session, or validates exactly the token extracted.
C32_ExtractBearerToken ==
    /\ ExtractBearerTokenCases
    /\ \A header \in Headers \ {<<>>} :
           LET extracted == extract_bearer_token(header)
               out == authenticate(Store, jwks_cache, jwks_cache_time,
                                   idp_keys, now, header, None, "up", "up")
           IN  IF extracted.error # NoError
               THEN /\ ~out.authenticated
                    /\ out.error = extracted.error.message
                    /\ out.status_code = 401
                    /\ out.store = Store
               ELSE out = authenticate(Store, jwks_cache, jwks_cache_time,
                                       idp_keys, now, <<>>, extracted.token,
                                       "up", "up")

\* A session whose activity was updated by an authenticate that took the
\* token out of a header with a lower-case scheme.
C32_Witness ==
    \E sid \in DOMAIN sessions :
        /\ sessions[sid].last_activity > sessions[sid].created_at
        /\ jwks_cache # {}
        /\ validate_jwt(extract_bearer_token(<<"bearer", " ", "tok_bob">>).token).sub
               = sessions[sid].user_id

UpstreamFailure == AuthMiddlewareError("Failed to fetch JWKS", 500)

\* C33: a validate_jwt call sends at most two GETs for the key set (one by
\* fetch_jwks(), one by the forced refresh) and none after one has failed:
\* when the identity provider cannot be reached or answers with an error
\* status, the call ends there with the "Failed to fetch JWKS" error (500)
\* raised to its caller, the token is not accepted and the cache is left as
\* it was before the failed GET.
C33_FetchFailureSurfaces ==
    \A token \in MwTokens, r1, r2 \in Responses :
        LET out == validate_jwt_keys(jwks_cache, jwks_cache_time, idp_keys,
                                     now, token, r1, r2)
            first == fetch_jwks(jwks_cache, jwks_cache_time, idp_keys, now,
                                FALSE, r1)
            kid == token_kid(token)
        IN  /\ out.requests <= 2
            /\ out.forced <= 1
            /\ kid # None /\ first.requests = 1 /\ r1 = "down" =>
                   /\ out.error = UpstreamFailure
                   /\ ~out.ok
                   /\ out.requests = 1
                   /\ out.forced = 0
                   /\ out.cache = jwks_cache
                   /\ out.cache_time = jwks_cache_time
            /\ out.forced = 1 /\ r2 = "down" =>
                   /\ out.error = UpstreamFailure
                   /\ ~out.ok
                   /\ out.requests = first.requests + 1
                   /\ out.cache = first.cache
                   /\ out.cache_time = first.cache_time
            /\ out.error = UpstreamFailure =>
                   \/ first.requests = 1 /\ r1 = "down"
                   \/ out.forced = 1 /\ r2 = "down"

\* The cache has gone stale and the provider no longer serves the key of
\* alice's token: a validation sends a GET, then the forced one, and the
\* failure of either ends it.
C33_Witness ==
    /\ jwks_cache_time # NoTime
    /\ ~CacheFresh
    /\ "kid1" \in jwks_cache
    /\ "kid1" \notin idp_keys
    /\ validate_jwt_keys(jwks_cache, jwks_cache_time, idp_keys, now,
                         "tok_alice", "up", "down").requests = 2
    /\ validate_jwt_keys(jwks_cache, jwks_cache_time, idp_keys, now,
                         "tok_alice", "down", "up").requests = 1

\* C34: two validations in flight at once whose key ids are both absent from
\* the fresh cached key set send one forced GET between them.  validate_jwt
\* has no suspension point, so the two run one after the other, the second
\* on the cache the first left.
C34_MissesCoalesced ==
    \A tokenA, tokenB \in MwTokens :
        LET a == validate_jwt_keys(jwks_cache, jwks_cache_time, idp_keys,
                                   now, tokenA, "up", "up")
            b == validate_jwt_keys(a.cache, a.cache_time, idp_keys,
                                   now, tokenB, "up", "up")
        IN  /\ CacheFresh
            /\ token_kid(tokenA) # None /\ token_kid(tokenA) \notin jwks_cache
            /\ token_kid(tokenB) # None /\ token_kid(tokenB) \notin jwks_cache
            => a.forced + b.forced = 1

\* C35: AuthMiddleware.validate_session always returns a result and never
\* raises: "Session not found" for an id that is not in the table, not valid
\* for a session that is not active, "Session has expired" with the session
\* removed for an active session whose expires_at has passed, and valid for
\* an active session that has not expired, and for no other.
C35_ValidateSessionReturns ==
    \A session_id \in SessionIds \cup {NoSid} :
        LET out == validate_session(Store, session_id, now)
            session == get_session(Store, session_id)
        IN  /\ ~out.raised
            /\ session = NoSession =>
                   ~out.valid /\ out.error = "Session not found"
                       /\ out.store = Store
            /\ session # NoSession /\ session.status # "active" =>
                   ~out.valid /\ out.store = Store
            /\ session # NoSession /\ session.status = "active"
                   /\ session.expires_at < now =>
                   /\ ~out.valid
                   /\ out.error = "Session has expired"
                   /\ out.store = invalidate_session(Store, session_id)
            /\ out.valid <=>
                   /\ session # NoSession
                   /\ session.status = "active"
                   /\ ~(session.expires_at < now)

\* C36: check_authorization answers authorized=false for every intent when
\* the Location lookup ends in an error status, in an exception or in an
\* empty result; every answer of authorized=true comes from a lookup that
\* found a user and carries the user type read from it; and handle_query
\* stops at a refused check.
C36_AuthorizationFailsClosed ==
    /\ \A cm_response \in LookupFailures, i \in Intents :
           /\ ~check_authorization_impl(cm_response, i)
           /\ check_authorization_user_type(cm_response) = None
    /\ \A cm_response \in CMResponses, i \in Intents :
           check_authorization_impl(cm_response, i) =>
               /\ cm_response \in UserTypes
               /\ check_authorization_user_type(cm_response) = cm_response
    /\ agent_pc = "check_authorization" =>
           \A cm_response \in LookupFailures :
               after_check_authorization(
                   check_authorization_impl(cm_response, intent)) = "idle"
    /\ agent_pc \in {"generate_action_plan", "execute"} =>
           /\ calls # <<>>
           /\ LastCall = Call("check_authorization", TRUE)

\* handle_query was refused a help request, which only a failed lookup
\* refuses, and has stopped.
C36_Witness ==
    /\ agent_pc = "idle"
    /\ Upper(intent) = "HELP"
    /\ calls # <<>>
    /\ LastCall = Call("check_authorization", FALSE)
    /\ response = "Authorization denied"

\* The sessions of user u in a store.
SessionsOf(st, u) == {sid \in DOMAIN st.sessions : st.sessions[sid].user_id = u}

\* C37: whatever order the files are read in, the store a restart builds
\* from the storage directory finds no session that was invalidated before
\* the restart, by its id or by its user, holds at most one session per
\* user, and its index entry of a user is that user's live session.
C37_RestartDropsInvalidated ==
    \A index \in LoadedIndexes(session_files) :
        LET loaded == load_sessions(session_files, index)
        IN  /\ \A sid \in DOMAIN session_files.sessions :
                   session_files.sessions[sid].status = "expired" =>
                       /\ get_session(loaded, sid) = NoSession
                       /\ \A u \in Users :
                              get_session_by_user_id(loaded, u).session_id # sid
            /\ \A u \in Users :
                   /\ Cardinality(SessionsOf(loaded, u)) <= 1
                   /\ get_session_by_user_id(loaded, u).status # "expired"

\* A session that is not active or whose expires_at has passed.
NotUsable(session, t) == session.status # "active" \/ session.expires_at < t

====
